---- MODULE Spec2Model ----
(***************************************************************************)
(* Overlay data model (EditableDbcData), the Operation model, the generic  *)
(* History engine (ops + cursor + max_len) and the two ApplyOp bindings of *)
(* the repository: the production binding for EditableDbcData and the unit *)
(* tests' TestState binding (the only one whose apply can return Err).     *)
(*                                                                         *)
(* Rust values are modelled as follows.                                    *)
(*   HashMap<K,V>    a function whose DOMAIN is the set of keys present    *)
(*   HashSet<K>      a set                                                 *)
(*   Vec<T>          a sequence                                            *)
(*   Option<T>       << >> for None, << x >> for Some(x)                   *)
(*   Result<(),String>  the string "Ok", or the error message              *)
(*   struct          a record with the struct's field names                *)
(***************************************************************************)
EXTENDS Integers, Sequences, FiniteSets, TLC

VARIABLES
    binding,   \* which ApplyOp<S> instance History is used with
    data,      \* the EditableDbcData (S of the production binding)
    tstate,    \* the TestState (S of the unit-test binding)
    history,   \* the History: [ops, cursor, max_len]
    last,      \* the last command called and what it returned
    calls,     \* how many commands the caller has issued
    pc,        \* position of the caller in its scenario
    mon        \* what the caller recorded while running its scenario

vars == <<binding, data, tstate, history, last, calls, pc, mon>>

(***************************************************************************)
(* Bounds of the model.                                                    *)
(***************************************************************************)
\* History::new(max_len) is called with max_len in 0..MaxCap
MaxCap == 2
\* the free-running caller issues at most MaxCalls commands
MaxCalls == 4
\* the scenario callers issue runs of 1..MaxRun apply_new calls
MaxRun == 2
\* the scenario callers continue for at most MaxCont further commands
MaxCont == 2

(***************************************************************************)
(* Generic helpers for HashMap / Option / Vec.                             *)
(***************************************************************************)
None == << >>
Some(x) == << x >>
EmptyMap == << >>
MapInsert(m, k, v) == [x \in (DOMAIN m) \cup {k} |-> IF x = k THEN v ELSE m[x]]
MapRemove(m, k) == [x \in (DOMAIN m) \ {k} |-> m[x]]
MapGetOr(m, k, dflt) == IF k \in DOMAIN m THEN m[k] ELSE dflt
Ok == "Ok"

\* the elements of a finite set of integers, ascending, as a sequence
RECURSIVE SortedSeq(_)
SortedSeq(S) ==
    IF S = {} THEN << >>
    ELSE LET lo == CHOOSE x \in S : \A y \in S : x <= y
         IN  << lo >> \o SortedSeq(S \ {lo})

(***************************************************************************)
(* The parsed base document (can_dbc::DBC behind DbcData) and the payload  *)
(* records.                                                                *)
(***************************************************************************)
\* a can_dbc::Message of the parsed document: identifier, name, size, the
\* originating node (which the overlay never reads) and the signal names
BaseMsg1 == [message_id |-> 1, message_name |-> "Speed", message_size |-> 8,
             transmitter |-> "Node1", signals |-> << "rpm" >>]
\* the document of the model: one message, with a comment
Doc1 == [messages |-> << BaseMsg1 >>, comments |-> MapInsert(EmptyMap, 1, "c0")]
\* DbcData: dbc is None until a file is loaded
DbcDataNew == [dbc |-> None]
DbcDataLoaded == [dbc |-> Some(Doc1)]

\* MessageOverride values used as payloads
MkMessage(id, name, size, tx, cm, sigs) ==
    [message_id |-> id, message_name |-> name, message_size |-> size,
     transmitter |-> tx, comment |-> cm, signals |-> sigs]

\* MessageOverride::from_message
from_message(msg) ==
    MkMessage(msg.message_id, msg.message_name, msg.message_size, None, None, msg.signals)

\* SignalOverride values (the editable fields, copied as a whole by the code)
SigOv1 == [name |-> "rpm", start_bit |-> 0, signal_size |-> 8, unit |-> "rpm"]
SigOv2 == [name |-> "rpm", start_bit |-> 8, signal_size |-> 16, unit |-> "1/min"]

(***************************************************************************)
(* EditableDbcData.                                                        *)
(***************************************************************************)
EditableDbcData_new ==
    [base |-> DbcDataNew,
     message_name_overrides |-> EmptyMap,
     message_comment_overrides |-> EmptyMap,
     message_id_overrides |-> EmptyMap,
     message_size_overrides |-> EmptyMap,
     message_transmitter_overrides |-> EmptyMap,
     added_messages |-> EmptyMap,
     signal_overrides |-> EmptyMap,
     deleted_message_ids |-> {}]

from_dbc_data(dbc) == [EditableDbcData_new EXCEPT !.base = dbc]

get_message_name(d, message_id, original_name) ==
    MapGetOr(d.message_name_overrides, message_id, original_name)

\* a plausible slip: an existing override entry is kept (entry().or_insert)
set_message_name_KeepsEntry(d, message_id, new_name) ==
    IF new_name = ""
    THEN [d EXCEPT !.message_name_overrides = MapRemove(@, message_id)]
    ELSE IF message_id \in DOMAIN d.message_name_overrides
         THEN d
         ELSE [d EXCEPT !.message_name_overrides = MapInsert(@, message_id, new_name)]

\* a plausible slip: the empty name is stored like any other
set_message_name_StoresEmpty(d, message_id, new_name) ==
    [d EXCEPT !.message_name_overrides = MapInsert(@, message_id, new_name)]

set_message_name(d, message_id, new_name) ==
    IF new_name = ""
    THEN [d EXCEPT !.message_name_overrides = MapRemove(@, message_id)]
    ELSE [d EXCEPT !.message_name_overrides = MapInsert(@, message_id, new_name)]

\* the messages of the base document (none when no file is loaded)
BaseMessages(d) == IF d.base.dbc = None THEN << >> ELSE d.base.dbc[1].messages

get_message_comment(d, message_id) ==
    IF message_id \in DOMAIN d.message_comment_overrides
    THEN d.message_comment_overrides[message_id]
    ELSE IF /\ d.base.dbc # None
            /\ \E i \in 1..Len(BaseMessages(d)) : BaseMessages(d)[i].message_id = message_id
            /\ message_id \in DOMAIN d.base.dbc[1].comments
         THEN d.base.dbc[1].comments[message_id]
         ELSE ""

set_message_comment(d, message_id, comment) ==
    IF comment = ""
    THEN [d EXCEPT !.message_comment_overrides = MapRemove(@, message_id)]
    ELSE [d EXCEPT !.message_comment_overrides = MapInsert(@, message_id, comment)]

get_message_id(d, original_message_id) ==
    MapGetOr(d.message_id_overrides, original_message_id, original_message_id)

set_message_id(d, original_message_id, new_message_id) ==
    IF new_message_id = original_message_id
    THEN [d EXCEPT !.message_id_overrides = MapRemove(@, original_message_id)]
    ELSE [d EXCEPT !.message_id_overrides = MapInsert(@, original_message_id, new_message_id)]

\* u8::MAX: original_size.try_into() fails above it
U8Max == 255
\* what a call that panics yields
Panic == "panic"

\* the u64 original is converted to u8 first (expect: a panic when it does
\* not fit), whether or not an override exists
get_message_size(d, message_id, original_size) ==
    IF original_size > U8Max THEN Panic
    ELSE MapGetOr(d.message_size_overrides, message_id, original_size)

\* always inserts: there is no "equal to original" removal for sizes
set_message_size(d, message_id, new_size) ==
    [d EXCEPT !.message_size_overrides = MapInsert(@, message_id, new_size)]

get_message_transmitter(d, message_id) ==
    MapGetOr(d.message_transmitter_overrides, message_id, "")

set_message_transmitter(d, message_id, transmitter) ==
    IF transmitter = ""
    THEN [d EXCEPT !.message_transmitter_overrides = MapRemove(@, message_id)]
    ELSE [d EXCEPT !.message_transmitter_overrides = MapInsert(@, message_id, transmitter)]

\* a plausible slip: the delete mark of the identifier is left in place
add_message_KeepsDeleteMark(d, message) ==
    [d EXCEPT !.added_messages = MapInsert(@, message.message_id, message)]

add_message(d, message) ==
    [d EXCEPT !.added_messages = MapInsert(@, message.message_id, message),
              !.deleted_message_ids = @ \ {message.message_id}]

\* a plausible slip: a base message is removed from the parsed document
delete_message_DropsFromBase(d, message_id) ==
    IF message_id \in DOMAIN d.added_messages
    THEN [d EXCEPT !.added_messages = MapRemove(@, message_id)]
    ELSE IF d.base.dbc = None THEN d
         ELSE [d EXCEPT !.base.dbc[1].messages =
                           SelectSeq(@, LAMBDA m : m.message_id # message_id)]

delete_message(d, message_id) ==
    IF message_id \in DOMAIN d.added_messages
    THEN [d EXCEPT !.added_messages = MapRemove(@, message_id)]
    ELSE [d EXCEPT !.deleted_message_ids = @ \cup {message_id}]

\* MessageRef: Original(&Message) or Custom(&MessageOverride)
Original(msg) == [variant |-> "Original", msg |-> msg]
Custom(msg) == [variant |-> "Custom", msg |-> msg]
MessageRef_message_id(r) == r.msg.message_id
MessageRef_message_name(r) == r.msg.message_name
MessageRef_message_size(r) == r.msg.message_size

\* a plausible slip: the Original entries carry the overridden name,
\* identifier and size instead of the parsed ones
get_all_messages_Resolved(d) ==
    LET base == BaseMessages(d)
        kept == SelectSeq(base, LAMBDA m : m.message_id \notin d.deleted_message_ids)
        ids  == SortedSeq(DOMAIN d.added_messages)
    IN  [i \in 1..Len(kept) |->
            Original([kept[i] EXCEPT
                !.message_name = get_message_name(d, kept[i].message_id, @),
                !.message_size = get_message_size(d, kept[i].message_id, @),
                !.message_id = get_message_id(d, @)])]
        \o [i \in 1..Len(ids) |-> Custom(d.added_messages[ids[i]])]

\* a plausible slip: the base messages are listed without the deleted filter
get_all_messages_IgnoresDeleted(d) ==
    LET base == BaseMessages(d)
        ids  == SortedSeq(DOMAIN d.added_messages)
    IN  [i \in 1..Len(base) |-> Original(base[i])]
        \o [i \in 1..Len(ids) |-> Custom(d.added_messages[ids[i]])]

\* Vec<MessageRef>: the base messages not marked deleted, in document order,
\* then added_messages.values() (HashMap order is unspecified; ascending
\* identifier here, and nothing below depends on the order)
get_all_messages(d) ==
    LET base == BaseMessages(d)
        kept == SelectSeq(base, LAMBDA m : m.message_id \notin d.deleted_message_ids)
        ids  == SortedSeq(DOMAIN d.added_messages)
    IN  [i \in 1..Len(kept) |-> Original(kept[i])]
        \o [i \in 1..Len(ids) |-> Custom(d.added_messages[ids[i]])]

\* the identifiers get_all_messages returns
VisibleIds(d) ==
    {MessageRef_message_id(get_all_messages(d)[i]) : i \in 1..Len(get_all_messages(d))}

get_message_ref_by_id(d, message_id) ==
    LET base == BaseMessages(d)
        hit  == SelectSeq(base, LAMBDA m : /\ m.message_id = message_id
                                           /\ message_id \notin d.deleted_message_ids)
    IN  IF hit # << >> THEN Some(Original(hit[1]))
        ELSE IF message_id \in DOMAIN d.added_messages
             THEN Some(Custom(d.added_messages[message_id]))
             ELSE None

\* MessageRef::to_message_override
to_message_override(r) ==
    IF r.variant = "Original" THEN from_message(r.msg) ELSE r.msg

\* MessageRef::signals (a signal is modelled by its name)
MessageRef_signals(r) == r.msg.signals

\* str::to_lowercase, letter by letter (the strings of the model are ASCII)
UpperLetters == "ABCDEFGHIJKLMNOPQRSTUVWXYZ"
LowerLetters == "abcdefghijklmnopqrstuvwxyz"
\* the lower-case letter of each upper-case letter
LowerTable ==
    [c \in {SubSeq(UpperLetters, i, i) : i \in 1..Len(UpperLetters)} |->
        LET i == CHOOSE i \in 1..Len(UpperLetters) : SubSeq(UpperLetters, i, i) = c
        IN  SubSeq(LowerLetters, i, i)]
LowerChar(c) == IF c \in DOMAIN LowerTable THEN LowerTable[c] ELSE c
RECURSIVE to_lowercase(_)
to_lowercase(s) ==
    IF Len(s) = 0 THEN ""
    ELSE LowerChar(SubSeq(s, 1, 1)) \o to_lowercase(SubSeq(s, 2, Len(s)))

\* str::contains: the pattern occurs at some position
contains(hay, pat) ==
    \E i \in 1..(Len(hay) - Len(pat) + 1) : SubSeq(hay, i, i + Len(pat) - 1) = pat

\* the filter closure of search_messages
SearchKeeps(d, r, query_lower) ==
    LET sigs == MessageRef_signals(r)
        sig_hit == \E i \in 1..Len(sigs) : contains(to_lowercase(sigs[i]), query_lower)
    IN  IF r.variant = "Original"
        THEN \/ /\ r.msg.message_id \in DOMAIN d.message_name_overrides
                /\ contains(to_lowercase(d.message_name_overrides[r.msg.message_id]),
                            query_lower)
             \/ contains(to_lowercase(r.msg.message_name), query_lower)
             \/ sig_hit
        ELSE \/ contains(to_lowercase(r.msg.message_name), query_lower)
             \/ sig_hit

search_messages(d, query) ==
    LET all_messages == get_all_messages(d)
    IN  IF query = "" THEN all_messages
        ELSE SelectSeq(all_messages, LAMBDA r : SearchKeeps(d, r, to_lowercase(query)))

\* signal_overrides is not among the collections it looks at
has_modifications(d) ==
    \/ DOMAIN d.message_name_overrides # {}
    \/ DOMAIN d.message_comment_overrides # {}
    \/ DOMAIN d.message_id_overrides # {}
    \/ DOMAIN d.message_size_overrides # {}
    \/ DOMAIN d.message_transmitter_overrides # {}
    \/ DOMAIN d.added_messages # {}
    \/ d.deleted_message_ids # {}

(***************************************************************************)
(* Operation: the closed set of edit variants.                             *)
(***************************************************************************)
RenameMessage(id, old, new) ==
    [kind |-> "RenameMessage", message_id |-> id, old |-> old, new |-> new]
ModifyMessageId(orig, old_id, new_id) ==
    [kind |-> "ModifyMessageId", original_message_id |-> orig,
     old_id |-> old_id, new_id |-> new_id]
ModifyMessageComment(id, old, new) ==
    [kind |-> "ModifyMessageComment", message_id |-> id, old |-> old, new |-> new]
ModifyMessageSize(id, old, new) ==
    [kind |-> "ModifyMessageSize", message_id |-> id, old |-> old, new |-> new]
ModifyMessageTransmitter(id, old, new) ==
    [kind |-> "ModifyMessageTransmitter", message_id |-> id, old |-> old, new |-> new]
ModifySignal(id, signal_name, old, new) ==
    [kind |-> "ModifySignal", message_id |-> id, signal_name |-> signal_name,
     old |-> old, new |-> new]
AddMessage(message) == [kind |-> "AddMessage", message |-> message]
DeleteMessage(message) == [kind |-> "DeleteMessage", message |-> message]
Composite(ops) == [kind |-> "Composite", ops |-> ops]

\* a plausible slip: the backward loop walks the list front to back
Reverse_KeepsOrder(s) == s

\* ops.iter().rev()
Reverse(s) == [i \in 1..Len(s) |-> s[Len(s) + 1 - i]]

(***************************************************************************)
(* TestState, the fake state of the History unit tests.                    *)
(***************************************************************************)
TestState_new == [msgs |-> EmptyMap, signal_overrides |-> EmptyMap]

\* SignalData built from a SignalOverride by the test binding
SignalData(so) == [name |-> so.name, start_bit |-> so.start_bit, size |-> so.signal_size]

\* format!("Message {} not found", id) and its variants
ErrNotFound(id) == "Message " \o ToString(id) \o " not found"
ErrNotFoundDelete(id) == "Message " \o ToString(id) \o " not found for delete"
\* {:X}: identifiers of the model are below 10, where hex and decimal agree
ErrIdChange(id) == "Message 0x" \o ToString(id) \o " not found for id change"
ErrIdRevert(id) == "Message 0x" \o ToString(id) \o " not found for id revert"

(***************************************************************************)
(* ApplyOp<S>::apply(&self, state, forward) -> Result<(), String>.         *)
(* A target T is [binding, data, tstate]; apply changes the component the  *)
(* binding names and returns [target, res].                                *)
(***************************************************************************)
Result(T, res) == [target |-> T, res |-> res]
WithData(T, d) == [T EXCEPT !.data = d]
WithMsgs(T, m) == [T EXCEPT !.tstate.msgs = m]

RECURSIVE ApplyEditable(_, _, _)
RECURSIVE ApplyTest(_, _, _)
RECURSIVE ApplyEach(_, _, _)

\* a plausible slip: undoing the first edit of a signal leaves its entry
restore_signal_override_KeepsOnNone(d, key, old) ==
    IF old # None
    THEN [d EXCEPT !.signal_overrides = MapInsert(@, key, old[1])]
    ELSE d

\* ModifySignal applied backward: `match old`
restore_signal_override(d, key, old) ==
    IF old # None
    THEN [d EXCEPT !.signal_overrides = MapInsert(@, key, old[1])]
    ELSE [d EXCEPT !.signal_overrides = MapRemove(@, key)]

\* a plausible slip: the RenameMessage arm sets the new name in both directions
ApplyEditable_RenameIgnoresDirection(op, T, forward) ==
    LET d == T.data IN
    CASE op.kind = "RenameMessage" ->
           Result(WithData(T, set_message_name(d, op.message_id, op.new)), Ok)
      [] op.kind = "ModifyMessageComment" ->
           Result(WithData(T, set_message_comment(d, op.message_id,
                                 IF forward THEN op.new ELSE op.old)), Ok)
      [] op.kind = "ModifyMessageSize" ->
           Result(WithData(T, set_message_size(d, op.message_id,
                                 IF forward THEN op.new ELSE op.old)), Ok)
      [] op.kind = "ModifyMessageTransmitter" ->
           Result(WithData(T, set_message_transmitter(d, op.message_id,
                                 IF forward THEN op.new ELSE op.old)), Ok)
      [] op.kind = "ModifyMessageId" ->
           Result(WithData(T, set_message_id(d, op.original_message_id,
                                 IF forward THEN op.new_id ELSE op.old_id)), Ok)
      [] op.kind = "AddMessage" ->
           Result(WithData(T, IF forward THEN add_message(d, op.message)
                              ELSE delete_message(d, op.message.message_id)), Ok)
      [] op.kind = "DeleteMessage" ->
           Result(WithData(T, IF forward THEN delete_message(d, op.message.message_id)
                              ELSE add_message(d, op.message)), Ok)
      [] op.kind = "Composite" ->
           ApplyEach(IF forward THEN op.ops ELSE Reverse(op.ops), T, forward)
      [] op.kind = "ModifySignal" ->
           LET key == << op.message_id, op.signal_name >> IN
           Result(WithData(T,
               IF forward
               THEN [d EXCEPT !.signal_overrides = MapInsert(@, key, op.new)]
               ELSE restore_signal_override(d, key, op.old)), Ok)

\* impl ApplyOp<EditableDbcData> for Operation
ApplyEditable(op, T, forward) ==
    LET d == T.data IN
    CASE op.kind = "RenameMessage" ->
           Result(WithData(T, set_message_name(d, op.message_id,
                                 IF forward THEN op.new ELSE op.old)), Ok)
      [] op.kind = "ModifyMessageComment" ->
           Result(WithData(T, set_message_comment(d, op.message_id,
                                 IF forward THEN op.new ELSE op.old)), Ok)
      [] op.kind = "ModifyMessageSize" ->
           Result(WithData(T, set_message_size(d, op.message_id,
                                 IF forward THEN op.new ELSE op.old)), Ok)
      [] op.kind = "ModifyMessageTransmitter" ->
           Result(WithData(T, set_message_transmitter(d, op.message_id,
                                 IF forward THEN op.new ELSE op.old)), Ok)
      [] op.kind = "ModifyMessageId" ->
           Result(WithData(T, set_message_id(d, op.original_message_id,
                                 IF forward THEN op.new_id ELSE op.old_id)), Ok)
      [] op.kind = "AddMessage" ->
           Result(WithData(T, IF forward THEN add_message(d, op.message)
                              ELSE delete_message(d, op.message.message_id)), Ok)
      [] op.kind = "DeleteMessage" ->
           Result(WithData(T, IF forward THEN delete_message(d, op.message.message_id)
                              ELSE add_message(d, op.message)), Ok)
      [] op.kind = "Composite" ->
           ApplyEach(IF forward THEN op.ops ELSE Reverse(op.ops), T, forward)
      [] op.kind = "ModifySignal" ->
           LET key == << op.message_id, op.signal_name >> IN
           Result(WithData(T,
               IF forward
               THEN [d EXCEPT !.signal_overrides = MapInsert(@, key, op.new)]
               ELSE restore_signal_override(d, key, op.old)), Ok)

\* impl ApplyOp<TestState> for Operation (edit_history.rs, mod tests)
ApplyTest(op, T, forward) ==
    LET msgs == T.tstate.msgs IN
    CASE op.kind = "RenameMessage" ->
           IF op.message_id \in DOMAIN msgs
           THEN Result(WithMsgs(T, [msgs EXCEPT ![op.message_id].message_name =
                                       IF forward THEN op.new ELSE op.old]), Ok)
           ELSE Result(T, ErrNotFound(op.message_id))
      [] op.kind = "ModifyMessageComment" ->
           IF op.message_id \in DOMAIN msgs
           THEN Result(WithMsgs(T, [msgs EXCEPT ![op.message_id].comment =
                                       Some(IF forward THEN op.new ELSE op.old)]), Ok)
           ELSE Result(T, ErrNotFound(op.message_id))
      [] op.kind = "ModifyMessageId" ->
           LET from == IF forward THEN op.old_id ELSE op.new_id
               to   == IF forward THEN op.new_id ELSE op.old_id
           IN  IF from \in DOMAIN msgs
               THEN Result(WithMsgs(T, MapInsert(MapRemove(msgs, from), to,
                                          [msgs[from] EXCEPT !.message_id = to])), Ok)
               ELSE Result(T, IF forward THEN ErrIdChange(from) ELSE ErrIdRevert(from))
      [] op.kind = "ModifyMessageSize" ->
           IF op.message_id \in DOMAIN msgs
           THEN Result(WithMsgs(T, [msgs EXCEPT ![op.message_id].message_size =
                                       IF forward THEN op.new ELSE op.old]), Ok)
           ELSE Result(T, ErrNotFound(op.message_id))
      [] op.kind = "ModifyMessageTransmitter" ->
           IF op.message_id \in DOMAIN msgs
           THEN Result(WithMsgs(T, [msgs EXCEPT ![op.message_id].transmitter =
                                       Some(IF forward THEN op.new ELSE op.old)]), Ok)
           ELSE Result(T, ErrNotFound(op.message_id))
      [] op.kind = "AddMessage" ->
           IF forward
           THEN Result(WithMsgs(T, MapInsert(msgs, op.message.message_id, op.message)), Ok)
           ELSE Result(WithMsgs(T, MapRemove(msgs, op.message.message_id)), Ok)
      [] op.kind = "DeleteMessage" ->
           IF forward
           THEN IF op.message.message_id \in DOMAIN msgs
                THEN Result(WithMsgs(T, MapRemove(msgs, op.message.message_id)), Ok)
                ELSE Result(T, ErrNotFoundDelete(op.message.message_id))
           ELSE Result(WithMsgs(T, MapInsert(msgs, op.message.message_id, op.message)), Ok)
      [] op.kind = "Composite" ->
           ApplyEach(IF forward THEN op.ops ELSE Reverse(op.ops), T, forward)
      [] op.kind = "ModifySignal" ->
           LET key == << op.message_id, op.signal_name >> IN
           Result([T EXCEPT !.tstate.signal_overrides =
                      IF forward THEN MapInsert(@, key, SignalData(op.new))
                      ELSE IF op.old # None THEN MapInsert(@, key, SignalData(op.old[1]))
                           ELSE MapRemove(@, key)], Ok)

\* the trait call op.apply(state, forward), resolved by the type of state
Apply(op, T, forward) ==
    IF T.binding = "EditableDbcData" THEN ApplyEditable(op, T, forward)
    ELSE ApplyTest(op, T, forward)

\* a plausible slip: the loop returns after its first sub-operation
ApplyEach_StopsAfterFirst(ops, T, forward) ==
    IF ops = << >> THEN Result(T, Ok) ELSE Apply(Head(ops), T, forward)

\* for op in ops { op.apply(state, forward)?; } Ok(())
\* (`?` returns at the first Err; what was applied before it stays applied)
ApplyEach(ops, T, forward) ==
    IF ops = << >> THEN Result(T, Ok)
    ELSE LET r == Apply(Head(ops), T, forward)
         IN  IF r.res # Ok THEN r ELSE ApplyEach(Tail(ops), r.target, forward)

(***************************************************************************)
(* History: ops, cursor (0..=ops.len(), the next redo slot), max_len.      *)
(* Each command returns [history, target, res, applied], applied being the *)
(* calls of op.apply it made, as << [op, forward, res] >>.                 *)
(***************************************************************************)
History_new(max_len) == [ops |-> << >>, cursor |-> 0, max_len |-> max_len]
\* #[derive(Default)]: an empty Vec and 0 for both usize fields
History_default == [ops |-> << >>, cursor |-> 0, max_len |-> 0]

Outcome(h, T, res, applied) ==
    [history |-> h, target |-> T, res |-> res, applied |-> applied]
Applied(op, forward, res) == << [op |-> op, forward |-> forward, res |-> res] >>

\* a plausible slip: the redo tail is kept when a new operation is recorded
truncate_redo_KeepsTail(h) == h

\* apply_new: truncate any redo ops
truncate_redo(h) ==
    IF h.cursor < Len(h.ops) THEN [h EXCEPT !.ops = SubSeq(@, 1, h.cursor)] ELSE h

\* a plausible slip: the oldest entries are dropped and the cursor is left alone
enforce_max_len_KeepsCursor(h) ==
    IF Len(h.ops) > h.max_len
    THEN [h EXCEPT !.ops = SubSeq(@, Len(h.ops) - h.max_len + 1, Len(@))]
    ELSE h

\* a plausible slip: the newest entries are dropped instead of the oldest
enforce_max_len_DropsNewest(h) ==
    IF Len(h.ops) > h.max_len
    THEN LET overflow == Len(h.ops) - h.max_len
         IN  [h EXCEPT !.ops = SubSeq(@, 1, h.max_len),
                       !.cursor = IF @ >= overflow THEN @ - overflow ELSE 0]
    ELSE h

\* a plausible slip: a cap of 0 is read as "no limit"
enforce_max_len_ZeroUnlimited(h) ==
    IF h.max_len > 0 /\ Len(h.ops) > h.max_len
    THEN LET overflow == Len(h.ops) - h.max_len
         IN  [h EXCEPT !.ops = SubSeq(@, overflow + 1, Len(@)),
                       !.cursor = IF @ >= overflow THEN @ - overflow ELSE 0]
    ELSE h

\* apply_new: enforce max length, drop oldest if over limit
enforce_max_len(h) ==
    IF Len(h.ops) > h.max_len
    THEN LET overflow == Len(h.ops) - h.max_len
         IN  [h EXCEPT !.ops = SubSeq(@, overflow + 1, Len(@)),
                       !.cursor = IF @ >= overflow THEN @ - overflow ELSE 0]
    ELSE h

apply_new(h, op, T) ==
    LET pushed == [truncate_redo(h) EXCEPT !.ops = Append(@, op)]
        r      == Apply(op, T, TRUE)
    IN  IF r.res # Ok
        THEN \* `?`: the early return leaves the truncation and the push in place
             Outcome(pushed, r.target, r.res, Applied(op, TRUE, r.res))
        ELSE Outcome(enforce_max_len([pushed EXCEPT !.cursor = Len(pushed.ops)]),
                     r.target, Ok, Applied(op, TRUE, Ok))

\* a plausible slip: with the cursor at 0 the call reports success
undo_SilentAtZero(h, T) ==
    IF h.cursor = 0
    THEN Outcome(h, T, Ok, << >>)
    ELSE LET moved == [h EXCEPT !.cursor = @ - 1]
             op    == moved.ops[moved.cursor + 1]
             r     == Apply(op, T, FALSE)
         IN  Outcome(moved, r.target, r.res, Applied(op, FALSE, r.res))

undo(h, T) ==
    IF h.cursor = 0
    THEN Outcome(h, T, "Nothing to undo", << >>)
    ELSE LET moved == [h EXCEPT !.cursor = @ - 1]
             op    == moved.ops[moved.cursor + 1]
             r     == Apply(op, T, FALSE)
         IN  Outcome(moved, r.target, r.res, Applied(op, FALSE, r.res))

\* a plausible slip: the operation is re-applied and the cursor stays
redo_KeepsCursor(h, T) ==
    IF h.cursor >= Len(h.ops)
    THEN Outcome(h, T, "Nothing to redo", << >>)
    ELSE LET op == h.ops[h.cursor + 1]
             r  == Apply(op, T, TRUE)
         IN  Outcome(h, r.target, r.res, Applied(op, TRUE, r.res))

redo(h, T) ==
    IF h.cursor >= Len(h.ops)
    THEN Outcome(h, T, "Nothing to redo", << >>)
    ELSE LET op == h.ops[h.cursor + 1]
             r  == Apply(op, T, TRUE)
         IN  IF r.res # Ok
             THEN Outcome(h, r.target, r.res, Applied(op, TRUE, r.res))
             ELSE Outcome([h EXCEPT !.cursor = @ + 1], r.target, Ok, Applied(op, TRUE, Ok))

can_undo(h) == h.cursor > 0
can_redo(h) == h.cursor < Len(h.ops)
History_len(h) == Len(h.ops)

\* impl fmt::Display for Operation (to_string); {:X} of an identifier below
\* 10 is its decimal digit
to_string(op) ==
    CASE op.kind = "RenameMessage" ->
           "RenameMessage " \o ToString(op.message_id) \o ": '" \o op.old
             \o "' -> '" \o op.new \o "'"
      [] op.kind = "ModifyMessageId" ->
           "ModifyMessageId " \o ToString(op.original_message_id) \o ": 0x"
             \o ToString(op.old_id) \o " -> 0x" \o ToString(op.new_id)
      [] op.kind = "ModifyMessageComment" ->
           "ModifyMessageComment " \o ToString(op.message_id) \o ": '" \o op.old
             \o "' -> '" \o op.new \o "'"
      [] op.kind = "ModifyMessageSize" ->
           "ModifyMessageSize " \o ToString(op.message_id) \o ": " \o ToString(op.old)
             \o " -> " \o ToString(op.new)
      [] op.kind = "ModifyMessageTransmitter" ->
           "ModifyMessageTransmitter " \o ToString(op.message_id) \o ": '" \o op.old
             \o "' -> '" \o op.new \o "'"
      [] op.kind = "AddMessage" ->
           "AddMessage " \o ToString(op.message.message_id) \o " ('"
             \o op.message.message_name \o "')"
      [] op.kind = "DeleteMessage" ->
           "DeleteMessage " \o ToString(op.message.message_id) \o " ('"
             \o op.message.message_name \o "')"
      [] op.kind = "ModifySignal" ->
           "ModifySignal " \o ToString(op.message_id) \o ":" \o op.signal_name
      [] op.kind = "Composite" ->
           "Composite(" \o ToString(Len(op.ops)) \o " ops)"

\* a plausible slip: the entry at the cursor is described (off by one)
last_undo_description_AtCursor(h) ==
    IF h.cursor = 0 THEN None
    ELSE Some(to_string(h.ops[IF h.cursor < Len(h.ops) THEN h.cursor + 1 ELSE h.cursor]))

\* self.ops[self.cursor - 1] is element cursor of the 1-based sequence
last_undo_description(h) ==
    IF h.cursor = 0 THEN None ELSE Some(to_string(h.ops[h.cursor]))

\* self.ops[self.cursor] is element cursor + 1 of the 1-based sequence
last_redo_description(h) ==
    IF h.cursor >= Len(h.ops) THEN None ELSE Some(to_string(h.ops[h.cursor + 1]))

(***************************************************************************)
(* Inputs: the operations the callers hand to apply_new, and the payloads. *)
(***************************************************************************)
Msg1 == from_message(BaseMsg1)
Msg2 == MkMessage(2, "TestMsg", 8, None, None, << >>)

\* every variant (a sequence, not a set: the variants are records of
\* different shapes)
Operations ==
    << RenameMessage(1, "Speed", "VehicleSpeed"),
       ModifyMessageSize(1, 8, 4),
       ModifySignal(1, "rpm", None, SigOv1),
       AddMessage(Msg2),
       DeleteMessage(Msg2),
       AddMessage(Msg1),
       DeleteMessage(Msg1),
       Composite(<< AddMessage(Msg2), RenameMessage(1, "Speed", "V2") >>),
       ModifyMessageId(1, 1, 5),
       ModifyMessageComment(1, "c0", ""),
       ModifyMessageTransmitter(1, "", "ECU"),
       RenameMessage(1, "VehicleSpeed", "Speed"),
       ModifySignal(1, "rpm", Some(SigOv1), SigOv2),
       Composite(<< ModifyMessageComment(1, "c0", "c1"), ModifyMessageSize(1, 8, 4) >>) >>

\* the operations the free-running caller and the scenario callers issue
NumCallerOps == 8
CallerOps == SubSeq(Operations, 1, NumCallerOps)

\* equality of two Operation values (records of different kinds have
\* different shapes and are never compared field by field)
RECURSIVE SameOp(_, _)
SameOp(x, y) ==
    /\ x.kind = y.kind
    /\ IF x.kind = "Composite"
       THEN /\ Len(x.ops) = Len(y.ops)
            /\ \A i \in 1..Len(x.ops) : SameOp(x.ops[i], y.ops[i])
       ELSE x = y
SameOps(s, t) == Len(s) = Len(t) /\ \A i \in 1..Len(s) : SameOp(s[i], t[i])
\* two History values with the same operation sequence and cursor
SameHistory(g, h) == SameOps(g.ops, h.ops) /\ g.cursor = h.cursor

(***************************************************************************)
(* The state machine: one document session (a target state and its        *)
(* History), driven by a caller that issues the commands.                  *)
(***************************************************************************)
Target == [binding |-> binding, data |-> data, tstate |-> tstate]

NoCall == [cmd |-> "none", op |-> None, res |-> Ok, applied |-> << >>]

InitData ==
    IF binding = "EditableDbcData"
    THEN {EditableDbcData_new, from_dbc_data(DbcDataLoaded)}
    ELSE {EditableDbcData_new}

\* the unit tests start from an empty TestState or insert a message first
InitTestState ==
    IF binding = "TestState"
    THEN {TestState_new, [TestState_new EXCEPT !.msgs = MapInsert(EmptyMap, 1, Msg1)]}
    ELSE {TestState_new}

Init ==
    /\ binding \in {"EditableDbcData", "TestState"}
    /\ data \in InitData
    /\ tstate \in InitTestState
    /\ history \in {History_new(k) : k \in 0..MaxCap} \cup {History_default}
    /\ last = NoCall
    /\ calls = 0
    /\ pc = "free"
    /\ mon = << >>

\* the effect of a command's outcome o on the session
Commit(cmd, op, o) ==
    /\ history' = o.history
    /\ data' = o.target.data
    /\ tstate' = o.target.tstate
    /\ last' = [cmd |-> cmd, op |-> op, res |-> o.res, applied |-> o.applied]
    /\ calls' = calls + 1
    /\ UNCHANGED binding

ApplyNewCmd ==
    /\ pc = "free"
    /\ calls < MaxCalls
    /\ \E i \in 1..Len(CallerOps) :
          Commit("apply_new", Some(CallerOps[i]), apply_new(history, CallerOps[i], Target))
    /\ UNCHANGED <<pc, mon>>

UndoCmd ==
    /\ pc = "free"
    /\ calls < MaxCalls
    /\ Commit("undo", None, undo(history, Target))
    /\ UNCHANGED <<pc, mon>>

RedoCmd ==
    /\ pc = "free"
    /\ calls < MaxCalls
    /\ Commit("redo", None, redo(history, Target))
    /\ UNCHANGED <<pc, mon>>

\* window.editable_data.add_message(..) called directly (paste, test setup)
AddMessageDirect ==
    /\ pc = "free"
    /\ calls < MaxCalls
    /\ binding = "EditableDbcData"
    /\ \E m \in {Msg1, Msg2} : data' = add_message(data, m)
    /\ last' = [NoCall EXCEPT !.cmd = "add_message"]
    /\ calls' = calls + 1
    /\ UNCHANGED <<binding, tstate, history, pc, mon>>

DeleteMessageDirect ==
    /\ pc = "free"
    /\ calls < MaxCalls
    /\ binding = "EditableDbcData"
    /\ \E id \in {1, 2} : data' = delete_message(data, id)
    /\ last' = [NoCall EXCEPT !.cmd = "delete_message"]
    /\ calls' = calls + 1
    /\ UNCHANGED <<binding, tstate, history, pc, mon>>

Next ==
    \/ ApplyNewCmd
    \/ UndoCmd
    \/ RedoCmd
    \/ AddMessageDirect
    \/ DeleteMessageDirect

Spec == Init /\ [][Next]_vars

(***************************************************************************)
(* Operations as the callers build them: the old values are read from the  *)
(* overlay when the edit starts (MessageEditDialog::open_with_ref), a      *)
(* message is created only under an identifier that is not visible, and a  *)
(* visible message is deleted with the payload read from the overlay.      *)
(***************************************************************************)
RECURSIVE BuiltFrom(_, _)
RECURSIVE BuiltEach(_, _)
BuiltFrom(op, d) ==
    LET id  == IF op.kind = "ModifyMessageId" THEN op.original_message_id
               ELSE IF op.kind \in {"AddMessage", "DeleteMessage"} THEN op.message.message_id
               ELSE IF op.kind = "Composite" THEN 0
               ELSE op.message_id
        ref == get_message_ref_by_id(d, id)
    IN  CASE op.kind = "RenameMessage" ->
               ref # None /\ op.old = get_message_name(d, id, MessageRef_message_name(ref[1]))
          [] op.kind = "ModifyMessageComment" ->
               ref # None /\ op.old = get_message_comment(d, id)
          [] op.kind = "ModifyMessageId" ->
               ref # None /\ op.old_id = get_message_id(d, id)
          [] op.kind = "ModifyMessageSize" ->
               ref # None /\ op.old = get_message_size(d, id, MessageRef_message_size(ref[1]))
          [] op.kind = "ModifyMessageTransmitter" ->
               ref # None /\ op.old = get_message_transmitter(d, id)
          [] op.kind = "ModifySignal" ->
               /\ ref # None
               /\ op.old = IF << id, op.signal_name >> \in DOMAIN d.signal_overrides
                           THEN Some(d.signal_overrides[<< id, op.signal_name >>])
                           ELSE None
          [] op.kind = "AddMessage" -> id \notin VisibleIds(d)
          [] op.kind = "DeleteMessage" ->
               ref # None /\ op.message = to_message_override(ref[1])
          [] op.kind = "Composite" -> BuiltEach(op.ops, d)

\* the sub-operations of a Composite, each built from the state the ones
\* before it leave
BuiltEach(ops, d) ==
    IF ops = << >> THEN TRUE
    ELSE /\ BuiltFrom(Head(ops), d)
         /\ BuiltEach(Tail(ops),
               ApplyEditable(Head(ops), [binding |-> "EditableDbcData", data |-> d,
                                         tstate |-> TestState_new], TRUE).target.data)

(***************************************************************************)
(* Round trip of one operation on an overlay state: apply(s, true), then   *)
(* apply(s, false).  The inputs are drawn from bounded sets.               *)
(***************************************************************************)
OneEntry(k, v) == MapInsert(EmptyMap, k, v)

\* overlay states: a base document or none, with or without an override of
\* each kind (an identifier is never both added and deleted)
OverlayStates ==
    { [from_dbc_data(b) EXCEPT
           !.message_name_overrides = n,
           !.message_comment_overrides = c,
           !.message_size_overrides = z,
           !.added_messages = a,
           !.deleted_message_ids = dl] :
        b \in {DbcDataNew, DbcDataLoaded},
        n \in {EmptyMap, OneEntry(1, "VehicleSpeed")},
        c \in {EmptyMap, OneEntry(1, "c1")},
        z \in {EmptyMap, OneEntry(1, 4)},
        a \in {EmptyMap, OneEntry(2, Msg2)},
        dl \in {{}, {1}} }

InitRoundTrip ==
    /\ binding = "EditableDbcData"
    /\ data \in OverlayStates
    /\ tstate = TestState_new
    /\ history = History_new(0)
    /\ last = NoCall
    /\ calls = 0
    /\ pc = "rt_start"
    /\ \E i \in 1..Len(Operations) :
          mon = [op |-> Operations[i], s0 |-> data, built |-> BuiltFrom(Operations[i], data)]

\* op.apply(&mut s, true)
RoundTripForward ==
    /\ pc = "rt_start"
    /\ LET r == Apply(mon.op, Target, TRUE)
       IN  /\ data' = r.target.data
           /\ last' = [cmd |-> "apply", op |-> Some(mon.op), res |-> r.res,
                       applied |-> Applied(mon.op, TRUE, r.res)]
    /\ pc' = "rt_forward"
    /\ calls' = calls + 1
    /\ UNCHANGED <<binding, tstate, history, mon>>

\* op.apply(&mut s, false)
RoundTripBackward ==
    /\ pc = "rt_forward"
    /\ LET r == Apply(mon.op, Target, FALSE)
       IN  /\ data' = r.target.data
           /\ last' = [cmd |-> "apply", op |-> Some(mon.op), res |-> r.res,
                       applied |-> Applied(mon.op, FALSE, r.res)]
    /\ pc' = "rt_done"
    /\ calls' = calls + 1
    /\ UNCHANGED <<binding, tstate, history, mon>>

NextRoundTrip == RoundTripForward \/ RoundTripBackward

SpecRoundTrip == InitRoundTrip /\ [][NextRoundTrip]_vars

(***************************************************************************)
(* A run of History over the overlay: N apply_new calls with no undo       *)
(* between them, then N undo calls, then N redo calls, as in               *)
(* tests::add_rename_undo_redo and tests::delete_undo_redo.  mon records   *)
(* what the run observes: the state after each apply_new, can_undo() after *)
(* the last one, and the result and state of each undo.                    *)
(***************************************************************************)
InitRun ==
    /\ binding = "EditableDbcData"
    /\ data \in InitData
    /\ tstate = TestState_new
    /\ history \in {History_new(k) : k \in 0..MaxCap}
    /\ last = NoCall
    /\ calls = 0
    /\ pc = "run_new"
    /\ \E n \in 1..MaxRun :
          mon = [n |-> n, news |-> << >>, states |-> << >>, could_undo |-> FALSE,
                 undos |-> << >>, undone |-> << >>, redos |-> 0]

\* hist.apply_new(op, &mut state), op built from the state it is applied to
RunApplyNew ==
    /\ pc = "run_new"
    /\ \E i \in 1..Len(CallerOps) :
          /\ BuiltFrom(CallerOps[i], data)
          /\ LET o == apply_new(history, CallerOps[i], Target)
             IN  /\ Commit("apply_new", Some(CallerOps[i]), o)
                 /\ mon' = [mon EXCEPT !.news = Append(@, o.res),
                                       !.states = Append(@, o.target.data),
                                       !.could_undo = can_undo(o.history)]
    /\ pc' = IF Len(mon.news) + 1 = mon.n THEN "run_undo" ELSE "run_new"

\* hist.undo(&mut state)
RunUndo ==
    /\ pc = "run_undo"
    /\ LET o == undo(history, Target)
       IN  /\ Commit("undo", None, o)
           /\ mon' = [mon EXCEPT !.undos = Append(@, o.res),
                                 !.undone = Append(@, o.target.data)]
    /\ pc' = IF Len(mon.undos) + 1 = mon.n THEN "run_redo" ELSE "run_undo"

\* hist.redo(&mut state)
RunRedo ==
    /\ pc = "run_redo"
    /\ Commit("redo", None, redo(history, Target))
    /\ mon' = [mon EXCEPT !.redos = @ + 1]
    /\ pc' = IF mon.redos + 1 = mon.n THEN "run_done" ELSE "run_redo"

NextRun == RunApplyNew \/ RunUndo \/ RunRedo

SpecRun == InitRun /\ [][NextRun]_vars

(***************************************************************************)
(* Branching: apply_new(a), apply_new(b), undo(), apply_new(c), then a     *)
(* continuation of apply_new, undo and redo calls.  mon keeps b, whether   *)
(* the four calls returned Ok, and the length of the continuation.  The    *)
(* operations recorded after b differ from b, so that an application of b  *)
(* is an application of the original b.                                    *)
(***************************************************************************)
InitBranch ==
    /\ binding \in {"EditableDbcData", "TestState"}
    /\ data \in InitData
    /\ tstate \in InitTestState
    /\ history \in {History_new(k) : k \in 0..MaxCap}
    /\ last = NoCall
    /\ calls = 0
    /\ pc = "br_a"
    /\ mon = [b |-> None, ok |-> TRUE, c_res |-> Ok, cont |-> 0]

\* hist.apply_new(a, &mut state)
BranchA ==
    /\ pc = "br_a"
    /\ \E i \in 1..Len(CallerOps) :
          LET o == apply_new(history, CallerOps[i], Target)
          IN  /\ Commit("apply_new", Some(CallerOps[i]), o)
              /\ mon' = [mon EXCEPT !.ok = (o.res = Ok)]
    /\ pc' = "br_b"

\* hist.apply_new(b, &mut state)
BranchB ==
    /\ pc = "br_b"
    /\ \E i \in 1..Len(CallerOps) :
          /\ ~SameOp(CallerOps[i], last.op[1])
          /\ LET o == apply_new(history, CallerOps[i], Target)
             IN  /\ Commit("apply_new", Some(CallerOps[i]), o)
                 /\ mon' = [mon EXCEPT !.b = Some(CallerOps[i]),
                                       !.ok = (@ /\ o.res = Ok)]
    /\ pc' = "br_undo"

\* hist.undo(&mut state)
BranchUndo ==
    /\ pc = "br_undo"
    /\ LET o == undo(history, Target)
       IN  /\ Commit("undo", None, o)
           /\ mon' = [mon EXCEPT !.ok = (@ /\ o.res = Ok)]
    /\ pc' = "br_c"

\* hist.apply_new(c, &mut state)
BranchC ==
    /\ pc = "br_c"
    /\ \E i \in 1..Len(CallerOps) :
          /\ ~SameOp(CallerOps[i], mon.b[1])
          /\ LET o == apply_new(history, CallerOps[i], Target)
             IN  /\ Commit("apply_new", Some(CallerOps[i]), o)
                 /\ mon' = [mon EXCEPT !.ok = (@ /\ o.res = Ok), !.c_res = o.res]
    /\ pc' = "br_cont"

\* the continuation: one more apply_new
BranchThenApplyNew ==
    /\ pc = "br_cont"
    /\ mon.cont < MaxCont
    /\ \E i \in 1..Len(CallerOps) :
          /\ ~SameOp(CallerOps[i], mon.b[1])
          /\ Commit("apply_new", Some(CallerOps[i]), apply_new(history, CallerOps[i], Target))
    /\ mon' = [mon EXCEPT !.cont = @ + 1]
    /\ UNCHANGED pc

\* the continuation: one more undo
BranchThenUndo ==
    /\ pc = "br_cont"
    /\ mon.cont < MaxCont
    /\ Commit("undo", None, undo(history, Target))
    /\ mon' = [mon EXCEPT !.cont = @ + 1]
    /\ UNCHANGED pc

\* the continuation: one more redo
BranchThenRedo ==
    /\ pc = "br_cont"
    /\ mon.cont < MaxCont
    /\ Commit("redo", None, redo(history, Target))
    /\ mon' = [mon EXCEPT !.cont = @ + 1]
    /\ UNCHANGED pc

NextBranch ==
    \/ BranchA
    \/ BranchB
    \/ BranchUndo
    \/ BranchC
    \/ BranchThenApplyNew
    \/ BranchThenUndo
    \/ BranchThenRedo

SpecBranch == InitBranch /\ [][NextBranch]_vars

(***************************************************************************)
(* Deleting a visible message through History and undoing the deletion     *)
(* (tests/delete_undo.rs), in a window that has been edited before: the    *)
(* edits are History calls whose operations are built from the overlay.    *)
(* The History keeps at least one operation.  mon holds the identifier of   *)
(* the message being deleted.                                              *)
(***************************************************************************)
InitDeleteUndo ==
    /\ binding = "EditableDbcData"
    /\ data \in InitData
    /\ tstate = TestState_new
    /\ history \in {History_new(k) : k \in 1..MaxCap}
    /\ last = NoCall
    /\ calls = 0
    /\ pc = "du_edit"
    /\ mon = [id |-> 0]

\* an earlier edit: window.history.apply_new(op, &mut window.editable_data)
EditApplyNew ==
    /\ pc = "du_edit"
    /\ calls < MaxCalls
    /\ \E i \in 1..Len(CallerOps) :
          /\ BuiltFrom(CallerOps[i], data)
          /\ Commit("apply_new", Some(CallerOps[i]), apply_new(history, CallerOps[i], Target))
    /\ UNCHANGED <<pc, mon>>

\* an earlier undo
EditUndo ==
    /\ pc = "du_edit"
    /\ calls < MaxCalls
    /\ Commit("undo", None, undo(history, Target))
    /\ UNCHANGED <<pc, mon>>

\* an earlier redo
EditRedo ==
    /\ pc = "du_edit"
    /\ calls < MaxCalls
    /\ Commit("redo", None, redo(history, Target))
    /\ UNCHANGED <<pc, mon>>

\* apply_new(DeleteMessage { message: cm }) for a message that
\* get_all_messages returns, cm = get_message_ref_by_id(id).to_message_override()
DeleteVisible ==
    /\ pc = "du_edit"
    /\ \E id \in VisibleIds(data) :
          LET cm == to_message_override(get_message_ref_by_id(data, id)[1])
          IN  /\ Commit("apply_new", Some(DeleteMessage(cm)),
                        apply_new(history, DeleteMessage(cm), Target))
              /\ mon' = [id |-> id]
    /\ pc' = "du_deleted"

\* window.history.undo(&mut window.editable_data) right after the deletion
UndoDelete ==
    /\ pc = "du_deleted"
    /\ Commit("undo", None, undo(history, Target))
    /\ pc' = "du_undone"
    /\ UNCHANGED mon

NextDeleteUndo ==
    \/ EditApplyNew
    \/ EditUndo
    \/ EditRedo
    \/ DeleteVisible
    \/ UndoDelete

SpecDeleteUndo == InitDeleteUndo /\ [][NextDeleteUndo]_vars

(***************************************************************************)
(* One edit recorded, undone and redone in a window that has been edited   *)
(* before (tests::add_rename_undo_redo, delete_undo_redo and               *)
(* composite_operation, over the overlay): earlier History calls, then     *)
(* apply_new(op), undo(), redo().  mon holds op, the cursor seen before    *)
(* the call, the state after apply_new, and the result and state of undo.  *)
(***************************************************************************)
\* the name a window shows for a visible message
DisplayedName(d, id) ==
    get_message_name(d, id, MessageRef_message_name(get_message_ref_by_id(d, id)[1]))

\* what a reader of the overlay sees of one field edit or of an add/delete:
\* the value the operation sets in the given direction
Shows(op, d, forward) ==
    CASE op.kind = "RenameMessage" ->
           DisplayedName(d, op.message_id) = (IF forward THEN op.new ELSE op.old)
      [] op.kind = "ModifyMessageComment" ->
           get_message_comment(d, op.message_id) = (IF forward THEN op.new ELSE op.old)
      [] op.kind = "ModifyMessageSize" ->
           get_message_size(d, op.message_id,
               MessageRef_message_size(get_message_ref_by_id(d, op.message_id)[1]))
             = (IF forward THEN op.new ELSE op.old)
      [] op.kind = "ModifyMessageTransmitter" ->
           get_message_transmitter(d, op.message_id) = (IF forward THEN op.new ELSE op.old)
      [] op.kind = "ModifyMessageId" ->
           get_message_id(d, op.original_message_id)
             = (IF forward THEN op.new_id ELSE op.old_id)
      [] op.kind = "ModifySignal" ->
           LET key == << op.message_id, op.signal_name >>
           IN  IF forward \/ op.old # None
               THEN /\ key \in DOMAIN d.signal_overrides
                    /\ d.signal_overrides[key] = (IF forward THEN op.new ELSE op.old[1])
               ELSE key \notin DOMAIN d.signal_overrides
      [] op.kind = "AddMessage" ->
           (op.message.message_id \in VisibleIds(d)) = forward
      [] op.kind = "DeleteMessage" ->
           (op.message.message_id \notin VisibleIds(d)) = forward

InitUndoRedo ==
    /\ binding = "EditableDbcData"
    /\ data \in InitData
    /\ tstate = TestState_new
    /\ history \in {History_new(k) : k \in 0..MaxCap}
    /\ last = NoCall
    /\ calls = 0
    /\ pc = "ur_edit"
    /\ mon = [op |-> None, kept |-> 0, after_new |-> << >>,
              undo_res |-> Ok, after_undo |-> << >>]

\* an earlier edit
PriorApplyNew ==
    /\ pc = "ur_edit"
    /\ calls < MaxCalls
    /\ \E i \in 1..Len(CallerOps) :
          /\ BuiltFrom(CallerOps[i], data)
          /\ Commit("apply_new", Some(CallerOps[i]), apply_new(history, CallerOps[i], Target))
    /\ UNCHANGED <<pc, mon>>

\* an earlier undo
PriorUndo ==
    /\ pc = "ur_edit"
    /\ calls < MaxCalls
    /\ Commit("undo", None, undo(history, Target))
    /\ UNCHANGED <<pc, mon>>

\* an earlier redo
PriorRedo ==
    /\ pc = "ur_edit"
    /\ calls < MaxCalls
    /\ Commit("redo", None, redo(history, Target))
    /\ UNCHANGED <<pc, mon>>

\* history.apply_new(op, &mut state), op built from the state
EditApplyNewOp ==
    /\ pc = "ur_edit"
    /\ \E i \in 1..Len(Operations) :
          /\ BuiltFrom(Operations[i], data)
          /\ LET o == apply_new(history, Operations[i], Target)
             IN  /\ Commit("apply_new", Some(Operations[i]), o)
                 /\ mon' = [op |-> Some(Operations[i]), kept |-> history.cursor,
                            after_new |-> o.target.data,
                            undo_res |-> Ok, after_undo |-> << >>]
    /\ pc' = "ur_new"

\* history.undo(&mut state)
EditUndoOp ==
    /\ pc = "ur_new"
    /\ LET o == undo(history, Target)
       IN  /\ Commit("undo", None, o)
           /\ mon' = [mon EXCEPT !.undo_res = o.res, !.after_undo = o.target.data]
    /\ pc' = "ur_undone"

\* history.redo(&mut state)
EditRedoOp ==
    /\ pc = "ur_undone"
    /\ Commit("redo", None, redo(history, Target))
    /\ pc' = "ur_redone"
    /\ UNCHANGED mon

NextUndoRedo ==
    \/ PriorApplyNew
    \/ PriorUndo
    \/ PriorRedo
    \/ EditApplyNewOp
    \/ EditUndoOp
    \/ EditRedoOp

SpecUndoRedo == InitUndoRedo /\ [][NextUndoRedo]_vars

(***************************************************************************)
(* The Composite arm of apply, one loop iteration per step:                *)
(*   for op in ops.iter() { op.apply(state, true)?; }          (forward)   *)
(*   for op in ops.iter().rev() { op.apply(state, false)?; }   (backward)  *)
(* under both bindings.  mon holds the list, the direction, the state at   *)
(* entry, the indices visited so far with the result of each, and the      *)
(* value returned.                                                         *)
(***************************************************************************)
\* the sub-operation lists the loop is run on
CompositeLists ==
    << << AddMessage(Msg2), RenameMessage(1, "Speed", "V2") >>,
       << ModifyMessageComment(1, "c0", "c1"), ModifyMessageSize(1, 8, 4) >>,
       << RenameMessage(1, "Speed", "V2"), AddMessage(Msg2) >>,
       << AddMessage(Msg2), RenameMessage(2, "TestMsg", "T2"), DeleteMessage(Msg1) >>,
       << Composite(<< AddMessage(Msg2) >>), RenameMessage(2, "TestMsg", "T2") >>,
       << AddMessage(Msg2), DeleteMessage(Msg2), RenameMessage(1, "Speed", "V2") >> >>

InitComposite ==
    /\ binding \in {"EditableDbcData", "TestState"}
    /\ data \in InitData
    /\ tstate \in InitTestState
    /\ history = History_new(0)
    /\ last = NoCall
    /\ calls = 0
    /\ pc = "co_loop"
    /\ \E i \in 1..Len(CompositeLists), f \in BOOLEAN :
          mon = [ops |-> CompositeLists[i], forward |-> f, start |-> Target,
                 visited |-> << >>, results |-> << >>, res |-> Ok]

\* one iteration: the next element of ops.iter() or ops.iter().rev() is
\* applied; `?` returns its error
CompositeStep ==
    /\ pc = "co_loop"
    /\ Len(mon.visited) < Len(mon.ops)
    /\ LET i == IF mon.forward THEN Len(mon.visited) + 1
                ELSE Len(mon.ops) - Len(mon.visited)
           r == Apply(mon.ops[i], Target, mon.forward)
       IN  /\ data' = r.target.data
           /\ tstate' = r.target.tstate
           /\ last' = [cmd |-> "apply", op |-> Some(mon.ops[i]), res |-> r.res,
                       applied |-> Applied(mon.ops[i], mon.forward, r.res)]
           /\ mon' = [mon EXCEPT !.visited = Append(@, i),
                                 !.results = Append(@, r.res),
                                 !.res = r.res]
           /\ pc' = IF r.res # Ok THEN "co_done" ELSE "co_loop"
    /\ calls' = calls + 1
    /\ UNCHANGED <<binding, history>>

\* the iterator is exhausted: Ok(())
CompositeReturn ==
    /\ pc = "co_loop"
    /\ Len(mon.visited) = Len(mon.ops)
    /\ pc' = "co_done"
    /\ mon' = [mon EXCEPT !.res = Ok]
    /\ UNCHANGED <<binding, data, tstate, history, last, calls>>

NextComposite == CompositeStep \/ CompositeReturn

SpecComposite == InitComposite /\ [][NextComposite]_vars

(***************************************************************************)
(* add_message(m) followed by delete_message(m.message_id), called on the  *)
(* overlay directly, from bounded overlay states.  mon holds m and the     *)
(* state before the two calls.                                             *)
(***************************************************************************)
InitAddDelete ==
    /\ binding = "EditableDbcData"
    /\ data \in OverlayStates
    /\ tstate = TestState_new
    /\ history = History_new(0)
    /\ last = NoCall
    /\ calls = 0
    /\ pc = "ad_start"
    /\ \E m \in {Msg1, Msg2} : mon = [m |-> m, s0 |-> data]

\* data.add_message(m)
AddStep ==
    /\ pc = "ad_start"
    /\ data' = add_message(data, mon.m)
    /\ last' = [cmd |-> "add_message", op |-> None, res |-> Ok, applied |-> << >>]
    /\ pc' = "ad_added"
    /\ calls' = calls + 1
    /\ UNCHANGED <<binding, tstate, history, mon>>

\* data.delete_message(m.message_id)
DeleteStep ==
    /\ pc = "ad_added"
    /\ data' = delete_message(data, mon.m.message_id)
    /\ last' = [cmd |-> "delete_message", op |-> None, res |-> Ok, applied |-> << >>]
    /\ pc' = "ad_done"
    /\ calls' = calls + 1
    /\ UNCHANGED <<binding, tstate, history, mon>>

NextAddDelete == AddStep \/ DeleteStep

SpecAddDelete == InitAddDelete /\ [][NextAddDelete]_vars

(***************************************************************************)
(* The overlay driven directly: a caller that calls the setters,           *)
(* add_message and delete_message on the EditableDbcData of one session,   *)
(* and the History commands with operations built from what the overlay    *)
(* shows.  mon keeps the base as it was at load time, the arguments of the  *)
(* last direct call and the overlay as it was before the last call.        *)
(***************************************************************************)
\* the caller issues at most MaxEdits calls
MaxEdits == 3

\* the message identifiers the caller passes
OverlayIds == {1, 2}

InitOverlay ==
    /\ binding = "EditableDbcData"
    /\ data \in {EditableDbcData_new, from_dbc_data(DbcDataLoaded)}
    /\ tstate = TestState_new
    /\ history = History_new(MaxCap)
    /\ last = NoCall
    /\ calls = 0
    /\ pc = "ov"
    /\ mon = [base0 |-> data.base, id |-> 0, value |-> 0, prev |-> data]

\* a direct call on window.editable_data: the new overlay and the arguments
DirectCall(cmd, id, value, d) ==
    /\ data' = d
    /\ last' = [NoCall EXCEPT !.cmd = cmd]
    /\ mon' = [mon EXCEPT !.id = id, !.value = value, !.prev = data]
    /\ calls' = calls + 1
    /\ UNCHANGED <<binding, tstate, history, pc>>

SetMessageName ==
    /\ pc = "ov" /\ calls < MaxEdits
    /\ \E id \in OverlayIds, v \in {"", "Fast"} :
          DirectCall("set_message_name", id, v, set_message_name(data, id, v))

SetMessageComment ==
    /\ pc = "ov" /\ calls < MaxEdits
    /\ \E id \in OverlayIds, v \in {"", "note"} :
          DirectCall("set_message_comment", id, v, set_message_comment(data, id, v))

SetMessageId ==
    /\ pc = "ov" /\ calls < MaxEdits
    /\ \E id \in OverlayIds, v \in OverlayIds :
          DirectCall("set_message_id", id, v, set_message_id(data, id, v))

SetMessageSize ==
    /\ pc = "ov" /\ calls < MaxEdits
    /\ \E id \in OverlayIds, v \in {8, 4} :
          DirectCall("set_message_size", id, v, set_message_size(data, id, v))

SetMessageTransmitter ==
    /\ pc = "ov" /\ calls < MaxEdits
    /\ \E id \in OverlayIds, v \in {"", "ECU"} :
          DirectCall("set_message_transmitter", id, v, set_message_transmitter(data, id, v))

OverlayAddMessage ==
    /\ pc = "ov" /\ calls < MaxEdits
    /\ \E m \in {Msg1, Msg2} :
          DirectCall("add_message", m.message_id, m.message_name, add_message(data, m))

OverlayDeleteMessage ==
    /\ pc = "ov" /\ calls < MaxEdits
    /\ \E id \in OverlayIds :
          DirectCall("delete_message", id, 0, delete_message(data, id))

OverlayApplyNew ==
    /\ pc = "ov" /\ calls < MaxEdits
    /\ \E i \in 1..Len(Operations) :
          /\ BuiltFrom(Operations[i], data)
          /\ Commit("apply_new", Some(Operations[i]),
                    apply_new(history, Operations[i], Target))
    /\ mon' = [mon EXCEPT !.id = 0, !.value = 0, !.prev = data]
    /\ UNCHANGED pc

OverlayUndo ==
    /\ pc = "ov" /\ calls < MaxEdits
    /\ Commit("undo", None, undo(history, Target))
    /\ mon' = [mon EXCEPT !.id = 0, !.value = 0, !.prev = data]
    /\ UNCHANGED pc

OverlayRedo ==
    /\ pc = "ov" /\ calls < MaxEdits
    /\ Commit("redo", None, redo(history, Target))
    /\ mon' = [mon EXCEPT !.id = 0, !.value = 0, !.prev = data]
    /\ UNCHANGED pc

NextOverlay ==
    \/ SetMessageName
    \/ SetMessageComment
    \/ SetMessageId
    \/ SetMessageSize
    \/ SetMessageTransmitter
    \/ OverlayAddMessage
    \/ OverlayDeleteMessage
    \/ OverlayApplyNew
    \/ OverlayUndo
    \/ OverlayRedo

SpecOverlay == InitOverlay /\ [][NextOverlay]_vars

(***************************************************************************)
(* The message dialogs (ui/dialogs.rs, ui/state.rs): text buffers that are *)
(* trimmed and parsed, the create dialog and the edit form.                *)
(***************************************************************************)
MaxDlg == 3

\* str::trim (the buffers of the model hold no whitespace but the space)
RECURSIVE trim_start(_)
trim_start(s) ==
    IF s # "" /\ SubSeq(s, 1, 1) = " " THEN trim_start(SubSeq(s, 2, Len(s))) ELSE s
RECURSIVE trim_end(_)
trim_end(s) ==
    IF s # "" /\ SubSeq(s, Len(s), Len(s)) = " " THEN trim_end(SubSeq(s, 1, Len(s) - 1)) ELSE s
trim(s) == trim_end(trim_start(s))

\* the digits of radix 16; a character that is no digit has the value Radix16
UpperDigits == << "0", "1", "2", "3", "4", "5", "6", "7", "8", "9",
                  "A", "B", "C", "D", "E", "F" >>
LowerDigits == << "0", "1", "2", "3", "4", "5", "6", "7", "8", "9",
                  "a", "b", "c", "d", "e", "f" >>
Radix16 == Len(UpperDigits)
Radix10 == Radix16 - 6
DigitTable ==
    [c \in {UpperDigits[i] : i \in 1..Radix16} \cup {LowerDigits[i] : i \in 1..Radix16} |->
        IF \E i \in 1..Radix16 : UpperDigits[i] = c
        THEN (CHOOSE i \in 1..Radix16 : UpperDigits[i] = c) - 1
        ELSE (CHOOSE i \in 1..Radix16 : LowerDigits[i] = c) - 1]
DigitOf(c) == IF c \in DOMAIN DigitTable THEN DigitTable[c] ELSE Radix16

RECURSIVE ParseDigits(_, _, _)
ParseDigits(s, radix, acc) ==
    IF s = "" THEN Some(acc)
    ELSE LET v == DigitOf(SubSeq(s, 1, 1))
         IN  IF v >= radix THEN None
             ELSE ParseDigits(SubSeq(s, 2, Len(s)), radix, acc * radix + v)

\* u32::from_str_radix / str::parse::<u32>() / str::parse::<u64>(): an
\* optional "+", then at least one digit of the radix (the buffers of the
\* model are too short to overflow)
from_str_radix(s, radix) ==
    LET body == IF Len(s) > 1 /\ SubSeq(s, 1, 1) = "+" THEN SubSeq(s, 2, Len(s)) ELSE s
    IN  IF body = "" THEN None ELSE ParseDigits(body, radix, 0)

\* format!("{:X}", n) and n.to_string()
RECURSIVE UpperHex(_)
UpperHex(n) ==
    IF n < Radix16 THEN UpperDigits[n + 1]
    ELSE UpperHex(n \div Radix16) \o UpperDigits[(n % Radix16) + 1]
RECURSIVE u64_to_string(_)
u64_to_string(n) ==
    IF n < Radix10 THEN UpperDigits[n + 1]
    ELSE u64_to_string(n \div Radix10) \o UpperDigits[(n % Radix10) + 1]
\* format!("{:03X}", n)
RECURSIVE PadZeros(_, _)
PadZeros(s, width) == IF Len(s) >= width THEN s ELSE PadZeros("0" \o s, width)

\* parse_message_id: 0x-prefixed hex, then decimal, then bare hex
parse_message_id(text) ==
    LET s == trim(text)
        prefixed == IF Len(s) >= 2 /\ SubSeq(s, 1, 2) \in {"0x", "0X"}
                    THEN from_str_radix(SubSeq(s, 3, Len(s)), Radix16)
                    ELSE None
    IN  IF s = "" THEN None
        ELSE IF prefixed # None THEN prefixed
        ELSE IF from_str_radix(s, Radix10) # None THEN from_str_radix(s, Radix10)
        ELSE from_str_radix(s, Radix16)

\* MessageCreateDialog::parse_id (the same steps) and parse_size
MaxMessageSize == 8
parse_id(id_buffer) == parse_message_id(id_buffer)
parse_size(size_buffer) ==
    LET size == from_str_radix(trim(size_buffer), Radix10)
    IN  IF size # None /\ size[1] <= MaxMessageSize THEN size ELSE None

\* ErrorDialog
NoError == [show |-> FALSE, message |-> ""]
ShowError(message) == [show |-> TRUE, message |-> message]

\* what a dialog handler leaves: the dialog, the window's overlay and
\* History, the error dialog, and the apply_new call it made (if any)
DialogOutcome(dlg, d, h, err, op, applied) ==
    [dialog |-> dlg, data |-> d, history |-> h, error_dialog |-> err,
     op |-> op, applied |-> applied]

WindowTarget(d) == [binding |-> "EditableDbcData", data |-> d, tstate |-> TestState_new]

\* a plausible slip: only the identifiers of the base document are checked
id_exists_BaseOnly(d, message_id) ==
    \E i \in 1..Len(BaseMessages(d)) : BaseMessages(d)[i].message_id = message_id

\* handle_create_message: all_messages.iter().any(|m| m.message_id() == message_id)
id_exists(d, message_id) ==
    LET all_messages == get_all_messages(d)
    IN  \E i \in 1..Len(all_messages) : MessageRef_message_id(all_messages[i]) = message_id

IdExistsMessage(message_id) ==
    "Message ID 0x" \o PadZeros(UpperHex(message_id), 3)
        \o " already exists. Please choose a different ID."

\* handle_create_message; dlg holds the create dialog's buffers
handle_create_message(dlg, d, h, err) ==
    LET message_id  == parse_id(dlg.id_buffer)
        size        == parse_size(dlg.size_buffer)
        name        == trim(dlg.name_buffer)
        transmitter == trim(dlg.transmitter_buffer)
        comment     == trim(dlg.comment_buffer)
    IN  IF message_id = None
        THEN DialogOutcome(dlg, d, h, ShowError("Invalid message ID"), None, << >>)
        ELSE IF size = None
        THEN DialogOutcome(dlg, d, h,
                 ShowError("Invalid message size (must be 0-8 bytes)"), None, << >>)
        ELSE IF name = ""
        THEN DialogOutcome(dlg, d, h, ShowError("Message name cannot be empty"), None, << >>)
        ELSE IF id_exists(d, message_id[1])
        THEN DialogOutcome(dlg, d, h, ShowError(IdExistsMessage(message_id[1])), None, << >>)
        ELSE LET cm == MkMessage(message_id[1], name, size[1],
                                 IF transmitter = "" THEN None ELSE Some(transmitter),
                                 IF comment = "" THEN None ELSE Some(comment), << >>)
                 op == AddMessage(cm)
                 o  == apply_new(h, op, WindowTarget(d))
             IN  DialogOutcome(dlg, o.target.data, o.history,
                     IF o.res # Ok
                     THEN ShowError("Failed to apply operation: " \o o.res)
                     ELSE err,
                     Some(op), o.applied)

\* MessageEditDialog::open_with_ref
open_with_ref(r, d) ==
    LET id           == MessageRef_message_id(r)
        display_name == get_message_name(d, id, MessageRef_message_name(r))
        comment      == get_message_comment(d, id)
        display_id   == get_message_id(d, id)
        display_size == get_message_size(d, id, MessageRef_message_size(r))
        transmitter  == get_message_transmitter(d, id)
    IN  [message_id |-> id,
         name_buffer |-> display_name, original_name |-> display_name,
         comment_buffer |-> comment, original_comment |-> comment,
         id_buffer |-> "0x" \o UpperHex(display_id), original_id |-> display_id,
         size_buffer |-> u64_to_string(display_size), original_size |-> display_size,
         transmitter_buffer |-> transmitter, original_transmitter |-> transmitter]

\* apply_changes: which fields changed
name_changed(dlg) ==
    trim(dlg.name_buffer) # dlg.original_name /\ trim(dlg.name_buffer) # ""
comment_changed(dlg) == trim(dlg.comment_buffer) # dlg.original_comment
id_changed(dlg) ==
    LET new_id == parse_message_id(trim(dlg.id_buffer))
    IN  new_id # None /\ new_id # Some(dlg.original_id)
size_changed(dlg) ==
    LET new_size == from_str_radix(trim(dlg.size_buffer), Radix10)
    IN  new_size # None /\ new_size # Some(dlg.original_size) /\ new_size[1] <= MaxMessageSize
transmitter_changed(dlg) == trim(dlg.transmitter_buffer) # dlg.original_transmitter

\* apply_changes: the operations of the changed fields, in the code's order
FieldOps(dlg) ==
    (IF name_changed(dlg)
     THEN << RenameMessage(dlg.message_id, dlg.original_name, trim(dlg.name_buffer)) >>
     ELSE << >>)
    \o (IF comment_changed(dlg)
        THEN << ModifyMessageComment(dlg.message_id, dlg.original_comment,
                                     trim(dlg.comment_buffer)) >>
        ELSE << >>)
    \o (IF id_changed(dlg)
        THEN << ModifyMessageId(dlg.message_id, dlg.original_id,
                                parse_message_id(trim(dlg.id_buffer))[1]) >>
        ELSE << >>)
    \o (IF size_changed(dlg)
        THEN << ModifyMessageSize(dlg.message_id, dlg.original_size,
                                  from_str_radix(trim(dlg.size_buffer), Radix10)[1]) >>
        ELSE << >>)
    \o (IF transmitter_changed(dlg)
        THEN << ModifyMessageTransmitter(dlg.message_id, dlg.original_transmitter,
                                         trim(dlg.transmitter_buffer)) >>
        ELSE << >>)

\* a plausible slip: the operations are always wrapped
op_to_apply_AlwaysComposite(ops) == Composite(ops)

\* apply_changes: compose single or multiple ops
op_to_apply(ops) == IF Len(ops) = 1 THEN ops[1] ELSE Composite(ops)

\* apply_changes: the dialog's originals (and the id and size buffers) follow
\* the applied values
UpdateOriginals(dlg) ==
    LET new_id   == parse_message_id(trim(dlg.id_buffer))
        new_size == from_str_radix(trim(dlg.size_buffer), Radix10)
        named    == [dlg EXCEPT !.original_name = trim(dlg.name_buffer),
                                !.original_comment = trim(dlg.comment_buffer),
                                !.original_transmitter = trim(dlg.transmitter_buffer)]
        withId   == IF new_id # None
                    THEN [named EXCEPT !.original_id = new_id[1],
                                       !.id_buffer = "0x" \o UpperHex(new_id[1])]
                    ELSE named
    IN  IF new_size # None /\ new_size[1] <= MaxMessageSize
        THEN [withId EXCEPT !.original_size = new_size[1],
                            !.size_buffer = u64_to_string(new_size[1])]
        ELSE withId

\* apply_changes (the parent window is open)
apply_changes(dlg, d, h, err) ==
    IF FieldOps(dlg) = << >>
    THEN DialogOutcome(dlg, d, h, err, None, << >>)
    ELSE LET op == op_to_apply(FieldOps(dlg))
             o  == apply_new(h, op, WindowTarget(d))
         IN  IF o.res # Ok
             THEN DialogOutcome(dlg, o.target.data, o.history,
                      ShowError("Failed to apply edit operation: " \o o.res),
                      Some(op), o.applied)
             ELSE DialogOutcome(UpdateOriginals(dlg), o.target.data, o.history, err,
                      Some(op), o.applied)

(***************************************************************************)
(* A window whose messages are created and edited through the dialogs,     *)
(* with the Edit menu's undo and redo in between.                          *)
(***************************************************************************)
NoDialog == [message_id |-> 0,
             name_buffer |-> "", original_name |-> "",
             comment_buffer |-> "", original_comment |-> "",
             id_buffer |-> "", original_id |-> 0,
             size_buffer |-> "", original_size |-> 0,
             transmitter_buffer |-> "", original_transmitter |-> ""]

InitDialogs ==
    /\ binding = "EditableDbcData"
    /\ data \in InitData
    /\ tstate = TestState_new
    /\ history \in {History_new(k) : k \in 0..MaxCap}
    /\ last = NoCall
    /\ calls = 0
    /\ pc = "dlg"
    /\ mon = [edit |-> NoDialog, open |-> FALSE, form |-> NoDialog,
              error_dialog |-> NoError, prev_data |-> data, prev_history |-> history]

\* the outcome o of a dialog handler run on the form dlg
DialogCommit(cmd, dlg, o, edit) ==
    /\ data' = o.data
    /\ history' = o.history
    /\ last' = [cmd |-> cmd, op |-> o.op,
                res |-> IF o.applied = << >> THEN Ok ELSE o.applied[1].res,
                applied |-> o.applied]
    /\ calls' = calls + 1
    /\ mon' = [edit |-> edit, open |-> mon.open, form |-> dlg,
               error_dialog |-> o.error_dialog,
               prev_data |-> data, prev_history |-> history]
    /\ UNCHANGED <<binding, tstate, pc>>

\* the Create button of the create dialog
DlgCreateMessage ==
    /\ pc = "dlg" /\ calls < MaxDlg
    /\ \E idb \in {"0x1", "2", " 5", "zz"}, sb \in {"8", "9"}, nb \in {"New ", " "} :
          LET dlg == [NoDialog EXCEPT !.id_buffer = idb, !.size_buffer = sb,
                                      !.name_buffer = nb]
          IN  DialogCommit("create", dlg,
                           handle_create_message(dlg, data, history, mon.error_dialog),
                           mon.edit)

\* a double click on a row of the message table opens the edit form
DlgOpenEdit ==
    /\ pc = "dlg" /\ calls < MaxDlg
    /\ \E i \in 1..Len(get_all_messages(data)) :
          mon' = [mon EXCEPT !.edit = open_with_ref(get_all_messages(data)[i], data),
                             !.open = TRUE,
                             !.prev_data = data, !.prev_history = history]
    /\ last' = [NoCall EXCEPT !.cmd = "open_edit"]
    /\ calls' = calls + 1
    /\ UNCHANGED <<binding, data, tstate, history, pc>>

\* the user fills the form's buffers and presses Apply
DlgApplyChanges ==
    /\ pc = "dlg" /\ calls < MaxDlg
    /\ mon.open
    /\ \E nb \in {mon.edit.name_buffer, "Fast", " "},
          cb \in {mon.edit.comment_buffer, "", " note"},
          ib \in {mon.edit.id_buffer, "0x5", "zz"},
          sb \in {mon.edit.size_buffer, "4", "9"},
          tb \in {mon.edit.transmitter_buffer, "ECU"} :
          LET dlg == [mon.edit EXCEPT !.name_buffer = nb, !.comment_buffer = cb,
                                      !.id_buffer = ib, !.size_buffer = sb,
                                      !.transmitter_buffer = tb]
              o   == apply_changes(dlg, data, history, mon.error_dialog)
          IN  DialogCommit("apply_changes", dlg, o, o.dialog)

\* Edit > Undo and Edit > Redo
DlgUndo ==
    /\ pc = "dlg" /\ calls < MaxDlg
    /\ can_undo(history)
    /\ Commit("undo", None, undo(history, Target))
    /\ mon' = [mon EXCEPT !.prev_data = data, !.prev_history = history]
    /\ UNCHANGED pc

DlgRedo ==
    /\ pc = "dlg" /\ calls < MaxDlg
    /\ can_redo(history)
    /\ Commit("redo", None, redo(history, Target))
    /\ mon' = [mon EXCEPT !.prev_data = data, !.prev_history = history]
    /\ UNCHANGED pc

NextDialogs ==
    \/ DlgCreateMessage
    \/ DlgOpenEdit
    \/ DlgApplyChanges
    \/ DlgUndo
    \/ DlgRedo

SpecDialogs == InitDialogs /\ [][NextDialogs]_vars

(***************************************************************************)
(* The snapshot-stack undo design (ui/state.rs, DbcWindowState): an undo   *)
(* stack and a redo stack of entries [op, before, after].  The window's    *)
(* two stacks are kept in mon.                                             *)
(***************************************************************************)
MAX_UNDO_ENTRIES == 100
MaxFill == 101
MaxMix == 3

UndoEntry(op, before, after) == [op |-> op, before |-> before, after |-> after]

\* OverridesSnapshot::from_editable and OverridesSnapshot::apply_to: a
\* snapshot holds the overlay's data and not the parsed document
from_editable(d) == [f \in (DOMAIN d) \ {"base"} |-> d[f]]
apply_to(snapshot, d) == [f \in DOMAIN d |-> IF f \in DOMAIN snapshot THEN snapshot[f] ELSE d[f]]

\* a plausible slip: the newest entries are drained instead of the oldest
limit_undo_stack_size_DropsNewest(undo_stack) ==
    IF Len(undo_stack) > MAX_UNDO_ENTRIES
    THEN SubSeq(undo_stack, 1, MAX_UNDO_ENTRIES)
    ELSE undo_stack

\* limit_undo_stack_size
limit_undo_stack_size(undo_stack) ==
    IF Len(undo_stack) > MAX_UNDO_ENTRIES
    THEN LET overflow == Len(undo_stack) - MAX_UNDO_ENTRIES
         IN  SubSeq(undo_stack, overflow + 1, Len(undo_stack))
    ELSE undo_stack

\* DbcWindowState::push_undo, undo and redo on a window w =
\* [editable_data, undo_stack, redo_stack]
push_undo(w, op, before, after) ==
    [w EXCEPT !.redo_stack = << >>,
              !.undo_stack = limit_undo_stack_size(Append(@, UndoEntry(op, before, after)))]

DbcWindowState_undo(w) ==
    IF w.undo_stack = << >> THEN w
    ELSE LET entry   == w.undo_stack[Len(w.undo_stack)]
             current == from_editable(w.editable_data)
         IN  [editable_data |-> apply_to(entry.before, w.editable_data),
              undo_stack |-> SubSeq(w.undo_stack, 1, Len(w.undo_stack) - 1),
              redo_stack |-> Append(w.redo_stack, UndoEntry(entry.op, entry.before, current))]

DbcWindowState_redo(w) ==
    IF w.redo_stack = << >> THEN w
    ELSE LET entry   == w.redo_stack[Len(w.redo_stack)]
             current == from_editable(w.editable_data)
         IN  [editable_data |-> apply_to(entry.after, w.editable_data),
              undo_stack |-> Append(w.undo_stack, UndoEntry(entry.op, current, entry.after)),
              redo_stack |-> SubSeq(w.redo_stack, 1, Len(w.redo_stack) - 1)]

Window == [editable_data |-> data, undo_stack |-> mon.undo_stack,
           redo_stack |-> mon.redo_stack]

InitSnapshots ==
    /\ binding = "EditableDbcData"
    /\ data = from_dbc_data(DbcDataLoaded)
    /\ tstate = TestState_new
    /\ history = History_default
    /\ last = NoCall
    /\ calls = 0
    /\ pc = "snap_fill"
    /\ mon = [undo_stack |-> << >>, redo_stack |-> << >>, pushed |-> 0]

WindowCommit(cmd, w, pushed) ==
    /\ data' = w.editable_data
    /\ mon' = [undo_stack |-> w.undo_stack, redo_stack |-> w.redo_stack, pushed |-> pushed]
    /\ last' = [NoCall EXCEPT !.cmd = cmd]
    /\ UNCHANGED <<binding, tstate, history>>

\* an edit of the old design: snapshot, rename message 1 to a fresh name,
\* snapshot, push_undo; first a run of up to MaxFill edits, then up to MaxMix
\* calls of any kind
SnapEdit ==
    /\ \/ /\ pc = "snap_fill"
          /\ mon.pushed < MaxFill
          /\ UNCHANGED <<pc, calls>>
       \/ /\ calls < MaxMix
          /\ pc' = "snap_mix"
          /\ calls' = calls + 1
    /\ LET before   == from_editable(data)
           old_name == get_message_name(data, 1, "Speed")
           new_name == "N" \o u64_to_string(mon.pushed + 1)
           edited   == set_message_name(data, 1, new_name)
           after    == from_editable(edited)
       IN  WindowCommit("push_undo",
                        push_undo([Window EXCEPT !.editable_data = edited],
                                  [kind |-> "RenameMessage", message_id |-> 1,
                                   old_name |-> old_name, new_name |-> new_name],
                                  before, after),
                        mon.pushed + 1)

SnapUndo ==
    /\ calls < MaxMix
    /\ pc' = "snap_mix"
    /\ calls' = calls + 1
    /\ WindowCommit("window_undo", DbcWindowState_undo(Window), mon.pushed)

SnapRedo ==
    /\ calls < MaxMix
    /\ pc' = "snap_mix"
    /\ calls' = calls + 1
    /\ WindowCommit("window_redo", DbcWindowState_redo(Window), mon.pushed)

NextSnapshots ==
    \/ SnapEdit
    \/ SnapUndo
    \/ SnapRedo

SpecSnapshots == InitSnapshots /\ [][NextSnapshots]_vars

(***************************************************************************)
(* EditableDbc (editable_dbc.rs): a document edited in place, every setter *)
(* recording an Operation in the document's own history.  An Operation is  *)
(* [kind, message_id, (signal_name,) old, new]; SetMessageId and           *)
(* SetSignalName keep the fields the source gives them.                    *)
(***************************************************************************)
MaxSet == 2

EditableSignal1 ==
    [name |-> "rpm", multiplexer_indicator |-> "Plain", start_bit |-> 0,
     signal_size |-> 8, byte_order |-> "LittleEndian", value_type |-> "Unsigned",
     factor |-> 1, offset |-> 0, min |-> 0, max |-> 255, unit |-> "rpm",
     receivers |-> << >>, comment |-> ""]
EditableMessage1 ==
    [message_id |-> 1, frame_format |-> "Standard", message_name |-> "Speed",
     message_size |-> 8, transmitter |-> "Node1", signals |-> << EditableSignal1 >>,
     comment |-> "c0"]
EditableMessage2 ==
    [message_id |-> 2, frame_format |-> "Standard", message_name |-> "TestMsg",
     message_size |-> 8, transmitter |-> "", signals |-> << >>, comment |-> ""]

\* EditableDbc::new
EditableDbc_new ==
    [nodes |-> << >>, messages |-> << >>, history |-> << >>,
     current_index |-> 0, head_index |-> 0]

\* find_message_index: the position of the first message with the identifier
find_message_index(e, message_id) ==
    IF \E i \in 1..Len(e.messages) : e.messages[i].message_id = message_id
    THEN Some(CHOOSE i \in 1..Len(e.messages) :
                 /\ e.messages[i].message_id = message_id
                 /\ \A j \in 1..(i - 1) : e.messages[j].message_id # message_id)
    ELSE None

\* find_index_signal_index
find_index_signal_index(e, message_idx, signal_name) ==
    LET signals == e.messages[message_idx].signals
    IN  IF \E i \in 1..Len(signals) : signals[i].name = signal_name
        THEN Some(CHOOSE i \in 1..Len(signals) :
                     /\ signals[i].name = signal_name
                     /\ \A j \in 1..(i - 1) : signals[j].name # signal_name)
        ELSE None

\* find_signal_index
find_signal_index(e, message_id, signal_name) ==
    IF find_message_index(e, message_id) # None
    THEN find_index_signal_index(e, find_message_index(e, message_id)[1], signal_name)
    ELSE None

\* a plausible slip: the Operation records the new value as the old one
SetMessageField_RecordsNewAsOld(e, message_id, field, kind, new) ==
    LET idx == find_message_index(e, message_id)
    IN  IF idx = None THEN e
        ELSE [e EXCEPT !.messages[idx[1]][field] = new,
                       !.history = Append(@, [kind |-> kind, message_id |-> message_id,
                                              old |-> new, new |-> new])]

\* the body the message setters share: get_message_mut, keep the old value,
\* assign, history.push
SetMessageField(e, message_id, field, kind, new) ==
    LET idx == find_message_index(e, message_id)
    IN  IF idx = None THEN e
        ELSE LET old == e.messages[idx[1]][field]
             IN  [e EXCEPT !.messages[idx[1]][field] = new,
                           !.history = Append(@, [kind |-> kind, message_id |-> message_id,
                                                  old |-> old, new |-> new])]

\* the body the signal setters share: get_signal_mut, keep the old value,
\* assign, history.push
SetSignalField(e, message_id, signal_name, field, kind, new) ==
    LET idx == find_signal_index(e, message_id, signal_name)
    IN  IF idx = None THEN e
        ELSE LET m   == find_message_index(e, message_id)[1]
                 old == e.messages[m].signals[idx[1]][field]
             IN  [e EXCEPT !.messages[m].signals[idx[1]][field] = new,
                           !.history = Append(@, [kind |-> kind, message_id |-> message_id,
                                                  signal_name |-> signal_name,
                                                  old |-> old, new |-> new])]

EditableDbc_set_message_id(e, old_message_id, new_message_id) ==
    LET idx == find_message_index(e, old_message_id)
    IN  IF idx = None THEN e
        ELSE [e EXCEPT !.messages[idx[1]].message_id = new_message_id,
                       !.history = Append(@, [kind |-> "SetMessageId",
                                              old_id |-> old_message_id,
                                              new_id |-> new_message_id])]

EditableDbc_set_signal_name(e, message_id, signal_old_name, signal_new_name) ==
    LET idx == find_signal_index(e, message_id, signal_old_name)
    IN  IF idx = None THEN e
        ELSE LET m        == find_message_index(e, message_id)[1]
                 old_name == e.messages[m].signals[idx[1]].name
             IN  [e EXCEPT !.messages[m].signals[idx[1]].name = signal_new_name,
                           !.history = Append(@, [kind |-> "SetSignalName",
                                                  message_id |-> message_id,
                                                  signal_old_name |-> old_name,
                                                  signal_new_name |-> signal_new_name])]

\* set_message_frame_format .. set_message_comment: the setter, the Operation
\* it records, the field it assigns, and the value the caller passes
MessageSetters ==
    << [setter |-> "set_message_frame_format", kind |-> "SetMessageFrameFormat", field |-> "frame_format",
        new |-> "Extended"],
       [setter |-> "set_message_name", kind |-> "SetMessageName", field |-> "message_name",
        new |-> "Fast"],
       [setter |-> "set_message_size", kind |-> "SetMessageSize", field |-> "message_size",
        new |-> 4],
       [setter |-> "set_message_transmitter", kind |-> "SetMessageTransmitter", field |-> "transmitter",
        new |-> "ECU"],
       [setter |-> "set_message_comment", kind |-> "SetMessageComment", field |-> "comment",
        new |-> ""] >>

\* set_signal_multiplexer_indicator .. set_signal_comment
SignalSetters ==
    << [setter |-> "set_signal_multiplexer_indicator", kind |-> "SetSignalMultiplexerIndicator", field |-> "multiplexer_indicator",
        new |-> "Multiplexor"],
       [setter |-> "set_signal_start_bit", kind |-> "SetSignalStartBit", field |-> "start_bit",
        new |-> 8],
       [setter |-> "set_signal_size", kind |-> "SetSignalSize", field |-> "signal_size",
        new |-> 16],
       [setter |-> "set_signal_byte_order", kind |-> "SetSignalByteOrder", field |-> "byte_order",
        new |-> "BigEndian"],
       [setter |-> "set_signal_value_type", kind |-> "SetSignalValueType", field |-> "value_type",
        new |-> "Signed"],
       [setter |-> "set_signal_factor", kind |-> "SetSignalFactor", field |-> "factor",
        new |-> 2],
       [setter |-> "set_signal_offset", kind |-> "SetSignalOffset", field |-> "offset",
        new |-> 1],
       [setter |-> "set_signal_min", kind |-> "SetSignalMin", field |-> "min",
        new |-> 1],
       [setter |-> "set_signal_max", kind |-> "SetSignalMax", field |-> "max",
        new |-> 100],
       [setter |-> "set_signal_unit", kind |-> "SetSignalUnit", field |-> "unit",
        new |-> "kph"],
       [setter |-> "set_signal_receivers", kind |-> "SetSignalReceivers", field |-> "receivers",
        new |-> << "ECU" >>],
       [setter |-> "set_signal_comment", kind |-> "SetSignalComment", field |-> "comment",
        new |-> "sc"] >>

(***************************************************************************)
(* A document edited through the setters of EditableDbc.  data holds the   *)
(* EditableDbc; mon holds the document before the last call and the call.  *)
(* Identifier 3 and signal "zz" address nothing.                           *)
(***************************************************************************)
InitEditable ==
    /\ binding = "EditableDbcData"
    /\ data \in {[EditableDbc_new EXCEPT !.messages = << EditableMessage1 >>],
                 [EditableDbc_new EXCEPT !.messages = << EditableMessage2, EditableMessage1 >>]}
    /\ tstate = TestState_new
    /\ history = History_default
    /\ last = NoCall
    /\ calls = 0
    /\ pc = "ed"
    /\ mon = [prev |-> data,
              call |-> [kind |-> "", field |-> "", on_signal |-> FALSE, message_id |-> 0,
                        signal_name |-> "", new |-> 0]]

\* the document e a setter call leaves
SetterCommit(setter, kind, field, on_signal, message_id, signal_name, new, e) ==
    /\ pc = "ed"
    /\ calls < MaxSet
    /\ data' = e
    /\ mon' = [prev |-> data,
               call |-> [kind |-> kind, field |-> field, on_signal |-> on_signal,
                         message_id |-> message_id, signal_name |-> signal_name,
                         new |-> new]]
    /\ last' = [NoCall EXCEPT !.cmd = setter]
    /\ calls' = calls + 1
    /\ UNCHANGED <<binding, tstate, history, pc>>

EdSetMessageId ==
    \E id \in {1, 2, 3}, new \in {2, 5} :
       SetterCommit("set_message_id", "SetMessageId", "message_id", FALSE, id, "", new,
                    EditableDbc_set_message_id(data, id, new))

EdSetMessageField ==
    \E i \in 1..Len(MessageSetters), id \in {1, 2, 3} :
       LET s == MessageSetters[i]
       IN  SetterCommit(s.setter, s.kind, s.field, FALSE, id, "", s.new,
                        SetMessageField(data, id, s.field, s.kind, s.new))

EdSetSignalName ==
    \E id \in {1, 2, 3}, name \in {"rpm", "zz"} :
       SetterCommit("set_signal_name", "SetSignalName", "name", TRUE, id, name, "speed",
                    EditableDbc_set_signal_name(data, id, name, "speed"))

EdSetSignalField ==
    \E i \in 1..Len(SignalSetters), id \in {1, 2, 3}, name \in {"rpm", "zz"} :
       LET s == SignalSetters[i]
       IN  SetterCommit(s.setter, s.kind, s.field, TRUE, id, name, s.new,
                        SetSignalField(data, id, name, s.field, s.kind, s.new))

NextEditable ==
    \/ EdSetMessageId
    \/ EdSetMessageField
    \/ EdSetSignalName
    \/ EdSetSignalField

SpecEditable == InitEditable /\ [][NextEditable]_vars

(***************************************************************************)
(* Properties of the free-running session (Spec).                          *)
(***************************************************************************)

\* C3: if the forward application inside apply_new returns an error, the
\* History's operation sequence and cursor after the call are what they were
\* before it (no redo entry discarded, op not recorded).
C3_FailedApplyNewLeavesHistory ==
    [][(last'.cmd = "apply_new" /\ last'.res # Ok) => SameHistory(history', history)]_vars

\* C4: if the backward application inside undo returns an error, the
\* History's cursor and operation sequence after the call equal their values
\* before it.
C4_FailedUndoLeavesHistory ==
    [][(last'.cmd = "undo" /\ last'.applied # << >> /\ last'.res # Ok)
          => SameHistory(history', history)]_vars

\* C7: in every reachable state, after any apply_new, undo and redo calls,
\* those returning an error included, 0 <= cursor <= length of the sequence.
C7_CursorInRange ==
    /\ 0 <= history.cursor
    /\ history.cursor <= Len(history.ops)

\* C7's case: after apply_new and undo calls, an undo whose backward
\* application failed has just moved the cursor, which is short of the end
C7_Witness ==
    /\ last.cmd = "undo"
    /\ last.applied # << >>
    /\ last.res # Ok
    /\ history.cursor < Len(history.ops)

\* C8: for a History created with cap K the number of stored operations
\* never exceeds K, whatever calls were made and whether they failed.
C8_LenWithinCap == Len(history.ops) <= history.max_len

\* C9: no message identifier is in both added_messages and
\* deleted_message_ids.
C9_AddedNotDeleted ==
    (DOMAIN data.added_messages) \cap data.deleted_message_ids = {}

\* C9's case: both collections are in use, the last change made by an
\* operation applied backward
C9_Witness ==
    /\ DOMAIN data.added_messages # {}
    /\ data.deleted_message_ids # {}
    /\ last.cmd = "undo"
    /\ last.res = Ok
    /\ last.applied[1].op.kind \in {"AddMessage", "DeleteMessage"}

\* the message identifiers present in the target: those get_all_messages
\* returns, or the keys of TestState.msgs
PresentIds(T) ==
    IF T.binding = "EditableDbcData" THEN VisibleIds(T.data) ELSE DOMAIN T.tstate.msgs

\* op, applied in the given direction, refers to a message that is not there:
\* a field or signal edit of an absent message, the deletion of an absent
\* message, the removal (undo of AddMessage) of a message that is not among
\* the added ones
RefersToAbsent(op, forward, T) ==
    CASE op.kind \in {"RenameMessage", "ModifyMessageComment", "ModifyMessageSize",
                      "ModifyMessageTransmitter", "ModifySignal"} ->
           op.message_id \notin PresentIds(T)
      [] op.kind = "ModifyMessageId" ->
           (IF forward THEN op.old_id ELSE op.new_id) \notin PresentIds(T)
             /\ op.original_message_id \notin PresentIds(T)
      [] op.kind = "DeleteMessage" ->
           forward /\ op.message.message_id \notin PresentIds(T)
      [] op.kind = "AddMessage" ->
           /\ ~forward
           /\ op.message.message_id \notin
                 (IF T.binding = "EditableDbcData" THEN DOMAIN T.data.added_messages
                  ELSE DOMAIN T.tstate.msgs)
      [] op.kind = "Composite" -> FALSE

\* C15: applying, forward or backward, an Operation that refers to a message
\* absent from the target at that moment returns a failure value, never Ok.
C15_AbsentIdFails ==
    [][(/\ calls' = calls + 1
        /\ last'.applied # << >>
        /\ RefersToAbsent(last'.applied[1].op, last'.applied[1].forward, Target))
          => last'.res # Ok]_vars

\* C16: undo called with cursor = 0 returns "Nothing to undo" and redo called
\* with cursor = length returns "Nothing to redo"; in both cases the target
\* state, the operation sequence and the cursor are unchanged.
C16_NothingToUndoRedo ==
    [][/\ (calls' = calls + 1 /\ last'.cmd = "undo" /\ history.cursor = 0)
            => /\ last'.res = "Nothing to undo"
               /\ SameHistory(history', history)
               /\ data' = data /\ tstate' = tstate
       /\ (calls' = calls + 1 /\ last'.cmd = "redo" /\ history.cursor = Len(history.ops))
            => /\ last'.res = "Nothing to redo"
               /\ SameHistory(history', history)
               /\ data' = data /\ tstate' = tstate]_vars

\* C16's case: undo has just been refused on a History that holds
\* operations, all of them undone
C16_Witness ==
    /\ last.cmd = "undo"
    /\ last.res = "Nothing to undo"
    /\ last.applied = << >>
    /\ history.cursor = 0
    /\ Len(history.ops) > 0

\* C17: in every reachable History state can_undo() is true exactly when
\* cursor > 0 and can_redo() exactly when cursor < length;
\* last_undo_description() is None exactly when can_undo() is false and is
\* otherwise the description of the operation at index cursor-1, the one the
\* next undo applies; last_redo_description() is None exactly when can_redo()
\* is false and is otherwise the description of the operation at index
\* cursor, the one the next redo applies.
C17_QueriesMatchCursor ==
    /\ can_undo(history) = (history.cursor > 0)
    /\ can_redo(history) = (history.cursor < Len(history.ops))
    /\ (last_undo_description(history) = None) = ~can_undo(history)
    /\ (last_redo_description(history) = None) = ~can_redo(history)
    /\ can_undo(history) =>
          /\ last_undo_description(history) = Some(to_string(history.ops[history.cursor]))
          /\ last_undo_description(history)
               = Some(to_string(undo(history, Target).applied[1].op))
    /\ can_redo(history) =>
          /\ last_redo_description(history)
               = Some(to_string(history.ops[history.cursor + 1]))
          /\ last_redo_description(history)
               = Some(to_string(redo(history, Target).applied[1].op))

\* C17's case: after apply_new and undo calls there is an operation to undo
\* and a different one to redo
C17_Witness ==
    /\ can_undo(history)
    /\ can_redo(history)
    /\ last.cmd = "undo"
    /\ last_undo_description(history) # last_redo_description(history)

\* C18: a successful apply_new(op) on a History with sequence ops, cursor c
\* and cap K leaves the sequence equal to the last min(c+1, K) entries of
\* ops[0..c) followed by op, in the same order, with the cursor at the new
\* length, so that can_redo() is false; the entries dropped for overflow are
\* the oldest ones, and dropping them does not change the target state,
\* which is the one op.apply(state, true) leaves.
C18_ApplyNewSequence ==
    [][(calls' = calls + 1 /\ last'.cmd = "apply_new" /\ last'.res = Ok)
        => LET op   == last'.op[1]
               c    == history.cursor
               K    == history.max_len
               full == Append(SubSeq(history.ops, 1, c), op)
               m    == IF c + 1 <= K THEN c + 1 ELSE K
           IN  /\ SameOps(history'.ops, SubSeq(full, Len(full) - m + 1, Len(full)))
               /\ history'.cursor = Len(history'.ops)
               /\ ~can_redo(history')
               /\ history'.max_len = K
               /\ [binding |-> binding', data |-> data', tstate |-> tstate']
                    = Apply(op, Target, TRUE).target]_vars

\* C18's case: a successful apply_new has just been recorded in a History
\* that is full, after more calls than the cap
C18_Witness ==
    /\ last.cmd = "apply_new"
    /\ last.res = Ok
    /\ history.max_len >= 1
    /\ calls > history.max_len + 1
    /\ Len(history.ops) = history.max_len
    /\ history.cursor = Len(history.ops)
    /\ ~SameOp(history.ops[1], history.ops[Len(history.ops)])

\* C19: a successful undo or redo never adds, removes, reorders or alters
\* stored operations: the operation sequence is unchanged and the cursor
\* changes by exactly -1 (undo) or +1 (redo).
C19_UndoRedoMoveCursorOnly ==
    [][(calls' = calls + 1 /\ last'.cmd \in {"undo", "redo"} /\ last'.res = Ok)
        => /\ SameOps(history'.ops, history.ops)
           /\ history'.max_len = history.max_len
           /\ history'.cursor
                = (IF last'.cmd = "undo" THEN history.cursor - 1 ELSE history.cursor + 1)]_vars

\* C19's case: a redo has just succeeded with operations on both sides of
\* the cursor
C19_Witness ==
    /\ last.cmd = "redo"
    /\ last.res = Ok
    /\ last.applied # << >>
    /\ 0 < history.cursor
    /\ history.cursor < Len(history.ops)

(***************************************************************************)
(* Properties of the round trip (SpecRoundTrip).                           *)
(***************************************************************************)

\* C1: for every operation op and overlay state s, apply(s, true) followed
\* by apply(s, false) leaves every override collection of s equal to its
\* value before the two calls.  Stated here for the pairs in which op was
\* built by reading s, the case every caller of the repository produces.
C1_RoundTripRestores ==
    (pc = "rt_done" /\ mon.built) => data = mon.s0

(***************************************************************************)
(* Properties of a run of N apply_new, N undo, N redo (SpecRun).           *)
(***************************************************************************)

\* C2: after N apply_new calls with no undo between them, N undo calls and
\* then N redo calls, the target state equals the state right after the N
\* apply_new calls.
C2_UndoRedoSymmetry ==
    pc = "run_done" => data = mon.states[mon.n]

\* C6: with cap K >= 1, after K+1 successful apply_new calls with no undo,
\* can_undo() is true, exactly K consecutive undo calls succeed, the
\* (K+1)-th returns "Nothing to undo", and the state after the K undos is
\* the state that followed the first (evicted) operation.
C6_RetentionEviction ==
    LET K == history.max_len
    IN  (/\ pc = "run_redo"
         /\ K >= 1
         /\ mon.n = K + 1
         /\ \A i \in 1..mon.n : mon.news[i] = Ok)
        => /\ mon.could_undo
           /\ \A i \in 1..K : mon.undos[i] = Ok
           /\ mon.undos[K + 1] = "Nothing to undo"
           /\ mon.undone[K] = mon.states[1]

(***************************************************************************)
(* Properties of branching (SpecBranch).                                   *)
(***************************************************************************)

C10_DeleteThenUndo ==
    /\ pc = "du_deleted" =>
          /\ last.res = Ok
          /\ mon.id \notin VisibleIds(data)
          /\ can_undo(history)
    /\ pc = "du_undone" => mon.id \in VisibleIds(data)

(***************************************************************************)
(* Properties of an edit recorded, undone and redone (SpecUndoRedo).       *)
(***************************************************************************)

\* C11: for a visible message m, base or added, after
\* apply_new(DeleteMessage{m}), undo, redo, the identifier of m is absent
\* from get_all_messages.
C11_DeleteUndoRedo ==
    (pc = "ur_redone" /\ mon.op[1].kind = "DeleteMessage")
        => mon.op[1].message.message_id \notin VisibleIds(data)

\* C12: for a message id with displayed name old and a non-empty new, after
\* apply_new(RenameMessage{id, old, new}) get_message_name(id, base name)
\* returns new; after the undo that follows (a call that returns Ok) it
\* returns old; after the redo that follows (a call that returns Ok) it
\* returns new again.
C12_RenameUndoRedo ==
    (/\ pc \in {"ur_new", "ur_undone", "ur_redone"}
     /\ mon.op[1].kind = "RenameMessage"
     /\ mon.op[1].new # "")
    => LET op == mon.op[1]
       IN  /\ DisplayedName(mon.after_new, op.message_id) = op.new
           /\ (pc # "ur_new" /\ mon.undo_res = Ok)
                 => DisplayedName(mon.after_undo, op.message_id) = op.old
           /\ (pc = "ur_redone" /\ mon.undo_res = Ok /\ last.res = Ok)
                 => DisplayedName(data, op.message_id) = op.new

\* C12's case: a rename recorded after earlier edits has been undone and
\* redone, both calls returning Ok
C12_Witness ==
    /\ pc = "ur_redone"
    /\ mon.op[1].kind = "RenameMessage"
    /\ mon.kept > 0
    /\ mon.undo_res = Ok
    /\ last.cmd = "redo"
    /\ last.res = Ok
    /\ DisplayedName(mon.after_undo, mon.op[1].message_id) # DisplayedName(data, mon.op[1].message_id)

\* C13: a Composite of n sub-operations applied with apply_new adds exactly
\* one History entry (the Composite itself); one undo reverts all n
\* sub-operations and one redo re-applies all n, so that, no sub-operation
\* failing, the state never shows only some of them applied.
C13_CompositeAsOneUnit ==
    (pc \in {"ur_new", "ur_undone", "ur_redone"} /\ mon.op[1].kind = "Composite")
    => LET op == mon.op[1]
           n  == Len(op.ops)
           K  == history.max_len
       IN  /\ Len(history.ops) = (IF mon.kept + 1 <= K THEN mon.kept + 1 ELSE K)
           /\ K >= 1 => SameOp(history.ops[Len(history.ops)], op)
           /\ \A i \in 1..n : Shows(op.ops[i], mon.after_new, TRUE)
           /\ (pc # "ur_new" /\ mon.undo_res = Ok)
                 => \A i \in 1..n : Shows(op.ops[i], mon.after_undo, FALSE)
           /\ (pc = "ur_redone" /\ mon.undo_res = Ok /\ last.res = Ok)
                 => \A i \in 1..n : Shows(op.ops[i], data, TRUE)

\* C13's case: a Composite of two sub-operations recorded after earlier
\* edits has been undone and redone by one call each
C13_Witness ==
    /\ pc = "ur_redone"
    /\ mon.op[1].kind = "Composite"
    /\ Len(mon.op[1].ops) >= 2
    /\ mon.kept > 0
    /\ mon.undo_res = Ok
    /\ last.cmd = "redo"
    /\ last.res = Ok
    /\ SameOp(last.applied[1].op, mon.op[1])

(***************************************************************************)
(* Properties of the Composite arm (SpecComposite).                        *)
(***************************************************************************)

\* C14: a Composite applied forward applies its sub-operations in list
\* order, applied backward in reverse list order; at the first sub-operation
\* that returns an error it stops and returns that error, the remaining
\* sub-operations are not applied and the ones already applied are not
\* reversed.  What the loop returns and leaves is what apply returns and
\* leaves for Operation::Composite.
C14_CompositeOrder ==
    pc \in {"co_loop", "co_done"} =>
        LET n == Len(mon.ops)
            k == Len(mon.visited)
            failed == k > 0 /\ mon.results[k] # Ok
        IN  /\ \A j \in 1..k : mon.visited[j] = (IF mon.forward THEN j ELSE n + 1 - j)
            /\ \A j \in 1..(k - 1) : mon.results[j] = Ok
            /\ pc = "co_done" =>
                  /\ mon.res = (IF failed THEN mon.results[k] ELSE Ok)
                  /\ ~failed => k = n
                  /\ Apply(Composite(mon.ops), mon.start, mon.forward)
                       = Result(Target, mon.res)
                  /\ failed =>
                        Target = ApplyEach([j \in 1..(k - 1) |-> mon.ops[mon.visited[j]]],
                                           mon.start, mon.forward).target

\* C14's case: a backward application that stopped at an error after a
\* sub-operation had been applied, with a sub-operation left unvisited
C14_Witness ==
    /\ pc = "co_done"
    /\ ~mon.forward
    /\ mon.res # Ok
    /\ Len(mon.visited) >= 2
    /\ Len(mon.visited) < Len(mon.ops)
    /\ Target # mon.start

(***************************************************************************)
(* Properties of add_message then delete_message (SpecAddDelete).          *)
(***************************************************************************)

\* C20: for any overlay state and any message m, add_message(m) followed by
\* delete_message(m.id) leaves the overlay as if neither had been called:
\* added_messages and deleted_message_ids both exclude m.id and every
\* collection is as before.
C20_AddDeleteDuality ==
    pc = "ad_done" =>
        /\ mon.m.message_id \notin DOMAIN data.added_messages
        /\ mon.m.message_id \notin data.deleted_message_ids
        /\ data = mon.s0

(***************************************************************************)
(* Properties of the overlay driven directly (SpecOverlay).                *)
(***************************************************************************)
\* the original names the callers pass as fallback
OriginalNames == {"Speed", "TestMsg", "Orig"}

\* C21: get_message_name(id, orig) returns orig while no name override
\* exists for id; after set_message_name(id, v) with a non-empty v it
\* returns v; after set_message_name(id, "") the override entry is gone and
\* it returns orig again.
C21_NameFallback ==
    \A orig \in OriginalNames :
       /\ \A id \in OverlayIds :
             id \notin DOMAIN data.message_name_overrides
                => get_message_name(data, id, orig) = orig
       /\ (last.cmd = "set_message_name" /\ mon.value # "")
             => get_message_name(data, mon.id, orig) = mon.value
       /\ (last.cmd = "set_message_name" /\ mon.value = "")
             => /\ mon.id \notin DOMAIN data.message_name_overrides
                /\ get_message_name(data, mon.id, orig) = orig

\* an override set to "Fast" was read back, then set_message_name(id, "")
\* removed it
C21_Witness ==
    /\ last.cmd = "set_message_name"
    /\ mon.value = ""
    /\ mon.id \in DOMAIN mon.prev.message_name_overrides
    /\ get_message_name(mon.prev, mon.id, "Orig") = "Fast"
    /\ get_message_name(data, mon.id, "Orig") = "Orig"

\* C22: for each of the five message fields the getter returns the override
\* when one is present for the identifier, and otherwise the original value
\* of that field from the base document; an absent key never panics.
C22_GettersFallBack ==
    \A i \in 1..Len(BaseMessages(data)) :
       LET m  == BaseMessages(data)[i]
           id == m.message_id
           doc == data.base.dbc[1]
       IN  /\ get_message_name(data, id, m.message_name)
                = (IF id \in DOMAIN data.message_name_overrides
                   THEN data.message_name_overrides[id] ELSE m.message_name)
           /\ get_message_comment(data, id)
                = (IF id \in DOMAIN data.message_comment_overrides
                   THEN data.message_comment_overrides[id]
                   ELSE IF id \in DOMAIN doc.comments THEN doc.comments[id] ELSE "")
           /\ get_message_id(data, id)
                = (IF id \in DOMAIN data.message_id_overrides
                   THEN data.message_id_overrides[id] ELSE m.message_id)
           /\ get_message_size(data, id, m.message_size)
                = (IF id \in DOMAIN data.message_size_overrides
                   THEN data.message_size_overrides[id] ELSE m.message_size)
           /\ get_message_transmitter(data, id)
                = (IF id \in DOMAIN data.message_transmitter_overrides
                   THEN data.message_transmitter_overrides[id] ELSE m.transmitter)

\* the size of the message a size edit is about, as the overlay held it
\* before the call (None when no such message is visible)
OriginalSizeOf(d, id) ==
    IF get_message_ref_by_id(d, id) = None THEN None
    ELSE Some(MessageRef_message_size(get_message_ref_by_id(d, id)[1]))

\* C23: every set_<field> inserts the override, and removes the entry when
\* the new value is the empty sentinel (the empty string for name, comment
\* and transmitter; a value equal to the original for identifier and size),
\* so a field set back to its sentinel has no entry in its override map.
C23_SettersKeepMinimal ==
    /\ last.cmd = "set_message_name"
          => IF mon.value = "" THEN mon.id \notin DOMAIN data.message_name_overrides
             ELSE MapGetOr(data.message_name_overrides, mon.id, "") = mon.value
    /\ last.cmd = "set_message_comment"
          => IF mon.value = "" THEN mon.id \notin DOMAIN data.message_comment_overrides
             ELSE MapGetOr(data.message_comment_overrides, mon.id, "") = mon.value
    /\ last.cmd = "set_message_transmitter"
          => IF mon.value = "" THEN mon.id \notin DOMAIN data.message_transmitter_overrides
             ELSE MapGetOr(data.message_transmitter_overrides, mon.id, "") = mon.value
    /\ last.cmd = "set_message_id"
          => IF mon.value = mon.id THEN mon.id \notin DOMAIN data.message_id_overrides
             ELSE MapGetOr(data.message_id_overrides, mon.id, 0) = mon.value
    /\ last.cmd = "set_message_size"
          => IF OriginalSizeOf(mon.prev, mon.id) = Some(mon.value)
             THEN mon.id \notin DOMAIN data.message_size_overrides
             ELSE MapGetOr(data.message_size_overrides, mon.id, 0) = mon.value

\* C24: has_modifications() is true exactly when at least one of the name,
\* comment, identifier, size, transmitter or signal override maps,
\* added_messages or deleted_message_ids is non-empty.
C24_HasModificationsIsEmptinessCheck ==
    has_modifications(data)
       <=> \/ DOMAIN data.message_name_overrides # {}
           \/ DOMAIN data.message_comment_overrides # {}
           \/ DOMAIN data.message_id_overrides # {}
           \/ DOMAIN data.message_size_overrides # {}
           \/ DOMAIN data.message_transmitter_overrides # {}
           \/ DOMAIN data.signal_overrides # {}
           \/ DOMAIN data.added_messages # {}
           \/ data.deleted_message_ids # {}

\* the search strings the callers type (window_state.search_query)
Queries == {"", "speed", "RPM", "Test", "FAST", "zz"}

\* two MessageRef values that refer to the same record
SameRef(r, s) == r.variant = s.variant /\ r.msg = s.msg

\* C25: get_all_messages returns exactly the base messages whose identifier
\* is not in deleted_message_ids plus every entry of added_messages;
\* search_messages(q) returns a subset of it for every q and all of it for
\* the empty q; neither returns a base message marked deleted.
C25_ListAndSearchFilterDeleted ==
    LET all  == get_all_messages(data)
        base == BaseMessages(data)
        kept == {i \in 1..Len(base) : base[i].message_id \notin data.deleted_message_ids}
    IN  /\ \A i \in 1..Len(base) :
              (i \in kept) <=> \E j \in 1..Len(all) : SameRef(all[j], Original(base[i]))
        /\ \A id \in DOMAIN data.added_messages :
              \E j \in 1..Len(all) : SameRef(all[j], Custom(data.added_messages[id]))
        /\ Len(all) = Cardinality(kept) + Cardinality(DOMAIN data.added_messages)
        /\ search_messages(data, "") = all
        /\ \A q \in Queries :
              LET found == search_messages(data, q)
              IN  /\ Len(found) <= Len(all)
                  /\ \A k \in 1..Len(found) : \E j \in 1..Len(all) : SameRef(found[k], all[j])
                  /\ \A k \in 1..Len(found) :
                        found[k].variant = "Original"
                           => found[k].msg.message_id \notin data.deleted_message_ids

\* the document's message is marked deleted and an added message is listed:
\* the list holds the added message only, one query finds it, one finds none
C25_Witness ==
    /\ BaseMessages(data) # << >>
    /\ 1 \in data.deleted_message_ids
    /\ DOMAIN data.added_messages = {2}
    /\ Len(get_all_messages(data)) = 1
    /\ Len(search_messages(data, "Test")) = 1
    /\ search_messages(data, "zz") = << >>

\* C26: for every non-empty query q, search_messages(q) returns every
\* visible message (Original or Custom) whose overridden name (the name
\* override stored for its identifier) or one of whose signal names contains
\* q, case-insensitively.
C26_SearchFindsOverriddenNames ==
    \A q \in Queries \ {""} :
       LET all   == get_all_messages(data)
           found == search_messages(data, q)
           ql    == to_lowercase(q)
       IN  \A j \in 1..Len(all) :
              LET r  == all[j]
                  id == MessageRef_message_id(r)
              IN  (\/ /\ id \in DOMAIN data.message_name_overrides
                      /\ contains(to_lowercase(data.message_name_overrides[id]), ql)
                   \/ \E i \in 1..Len(MessageRef_signals(r)) :
                         contains(to_lowercase(MessageRef_signals(r)[i]), ql))
                    => \E k \in 1..Len(found) : SameRef(found[k], r)

\* C27: no overlay setter, add_message, delete_message or History
\* apply_new/undo/redo applied through the EditableDbcData binding changes
\* the base document: after any sequence of them the base equals the base
\* at load time.
C27_BaseNeverMutated == data.base = mon.base0

\* a direct rename, then a delete recorded in the History and undone, on a
\* loaded document
C27_Witness ==
    /\ data.base.dbc # None
    /\ last.cmd = "undo"
    /\ last.res = Ok
    /\ 1 \in DOMAIN data.message_name_overrides
    /\ 1 \in DOMAIN data.added_messages
    /\ data.base = DbcDataLoaded

\* the operation that is op with its old and new values swapped (for
\* ModifySignal the old value is an Option and the new one is not: the swap
\* exists when old is Some), and AddMessage{m} for DeleteMessage{m} and back
HasMirror(op) ==
    \/ op.kind \in {"RenameMessage", "ModifyMessageComment", "ModifyMessageSize",
                    "ModifyMessageTransmitter", "ModifyMessageId",
                    "AddMessage", "DeleteMessage"}
    \/ op.kind = "ModifySignal" /\ op.old # None
Mirror(op) ==
    CASE op.kind = "RenameMessage" -> RenameMessage(op.message_id, op.new, op.old)
      [] op.kind = "ModifyMessageComment" -> ModifyMessageComment(op.message_id, op.new, op.old)
      [] op.kind = "ModifyMessageSize" -> ModifyMessageSize(op.message_id, op.new, op.old)
      [] op.kind = "ModifyMessageTransmitter" ->
           ModifyMessageTransmitter(op.message_id, op.new, op.old)
      [] op.kind = "ModifyMessageId" ->
           ModifyMessageId(op.original_message_id, op.new_id, op.old_id)
      [] op.kind = "ModifySignal" ->
           ModifySignal(op.message_id, op.signal_name, Some(op.new), op.old[1])
      [] op.kind = "AddMessage" -> DeleteMessage(op.message)
      [] op.kind = "DeleteMessage" -> AddMessage(op.message)

\* the ModifySignal operations that take op.new as their old value, whatever
\* they put in place of an absent old value
SignalSwaps(op) ==
    << ModifySignal(op.message_id, op.signal_name, Some(op.new), SigOv1),
       ModifySignal(op.message_id, op.signal_name, Some(op.new), SigOv2) >>

\* the overlay after op.apply(data, true)
ForwardOf(op) == ApplyEditable(op, Target, TRUE).target.data

\* C28 (as amended): for every field-edit operation that carries an old
\* value (the five message-field edits, and ModifySignal whose old override
\* is Some) applying it backward has exactly the effect of applying forward
\* the same operation with old and new swapped; ModifySignal whose old is
\* None applied backward removes the signal override; AddMessage{m} backward
\* has exactly the effect of DeleteMessage{m} forward, and vice versa.
C28_BackwardIsSwappedForward ==
    [][(pc = "rt_forward" /\ pc' = "rt_done" /\ mon.op.kind # "Composite")
          => IF HasMirror(mon.op)
             THEN data' = ForwardOf(Mirror(mon.op))
             ELSE data' = [data EXCEPT !.signal_overrides =
                              MapRemove(@, << mon.op.message_id, mon.op.signal_name >>)]]_vars

\* a ModifySignal with an old override was applied backward and put the old
\* override back
C28_Witness ==
    /\ pc = "rt_done"
    /\ mon.op.kind = "ModifySignal"
    /\ mon.op.old # None
    /\ last.applied[1].forward = FALSE
    /\ << 1, "rpm" >> \in DOMAIN data.signal_overrides
    /\ data.signal_overrides[<< 1, "rpm" >>] = mon.op.old[1]

\* C28 (as stated): for every field-edit operation, ModifySignal without an
\* old override included, applying it backward has exactly the effect of
\* applying forward the operation with old and new swapped.
C28_AsStated ==
    [][(pc = "rt_forward" /\ pc' = "rt_done" /\ mon.op.kind # "Composite")
          => IF HasMirror(mon.op)
             THEN data' = ForwardOf(Mirror(mon.op))
             ELSE \E i \in 1..Len(SignalSwaps(mon.op)) :
                     data' = ForwardOf(SignalSwaps(mon.op)[i])]_vars

\* C29 (as amended): reading the name, identifier or size through a
\* MessageRef returns the value stored in the record it refers to (the
\* parsed message for Original, the added entry for Custom) whatever the
\* override tables hold; the displayed value is what the overlay getter
\* returns for that identifier with the MessageRef's value as fallback (the
\* override when one exists; get_message_size panics on a stored size above
\* 255), computed the same way for both variants.
C29_MessageRefReadsStoredValues ==
    LET all  == get_all_messages(data)
        base == BaseMessages(data)
    IN  \A j \in 1..Len(all) :
           LET r  == all[j]
               id == MessageRef_message_id(r)
           IN  /\ r.variant = "Original"
                     => \E i \in 1..Len(base) :
                           /\ id = base[i].message_id
                           /\ MessageRef_message_name(r) = base[i].message_name
                           /\ MessageRef_message_size(r) = base[i].message_size
               /\ r.variant = "Custom"
                     => /\ id \in DOMAIN data.added_messages
                        /\ id = data.added_messages[id].message_id
                        /\ MessageRef_message_name(r) = data.added_messages[id].message_name
                        /\ MessageRef_message_size(r) = data.added_messages[id].message_size
               /\ get_message_name(data, id, MessageRef_message_name(r))
                     = MapGetOr(data.message_name_overrides, id, MessageRef_message_name(r))
               /\ get_message_id(data, id) = MapGetOr(data.message_id_overrides, id, id)
               /\ get_message_size(data, id, MessageRef_message_size(r))
                     = (IF MessageRef_message_size(r) > U8Max THEN Panic
                        ELSE MapGetOr(data.message_size_overrides, id,
                                      MessageRef_message_size(r)))

\* the document's message is listed as Original while a name override is
\* stored for it, next to an added message
C29_Witness ==
    /\ BaseMessages(data) # << >>
    /\ 1 \notin data.deleted_message_ids
    /\ 1 \in DOMAIN data.message_name_overrides
    /\ DOMAIN data.added_messages = {2}
    /\ Len(get_all_messages(data)) = 2
    /\ MessageRef_message_name(get_all_messages(data)[1]) = "Speed"
    /\ get_message_name(data, 1, MessageRef_message_name(get_all_messages(data)[1])) = "Fast"

\* C29 (as stated): reading the name, identifier or size through a
\* MessageRef of an Original message returns the value resolved through the
\* override tables (the override when one exists for that message).
C29_AsStated ==
    LET all == get_all_messages(data)
    IN  \A j \in 1..Len(all) :
           all[j].variant = "Original"
              => LET m == all[j].msg
                 IN  /\ MessageRef_message_name(all[j])
                          = MapGetOr(data.message_name_overrides, m.message_id, m.message_name)
                     /\ MessageRef_message_id(all[j])
                          = MapGetOr(data.message_id_overrides, m.message_id, m.message_id)
                     /\ MessageRef_message_size(all[j])
                          = MapGetOr(data.message_size_overrides, m.message_id, m.message_size)

(***************************************************************************)
(* Properties of the message list under recorded edits (SpecDeleteUndo).   *)
(***************************************************************************)

\* C30: after any sequence of History commands built the way the UI builds
\* them (AddMessage only for an identifier that is not visible,
\* DeleteMessage only for a visible message), interleaved with undo and
\* redo, get_all_messages never returns two entries with the same message
\* identifier.
C30_NoDuplicateIdentifiers ==
    LET all == get_all_messages(data)
    IN  \A i, j \in 1..Len(all) :
           MessageRef_message_id(all[i]) = MessageRef_message_id(all[j]) => i = j

(***************************************************************************)
(* Properties of what the document shows along a run (SpecRun).            *)
(***************************************************************************)

\* what the overlay shows: the identifiers get_all_messages returns and, for
\* each, what the five getters return (name and size with the MessageRef's
\* value as the original)
Shown(d) ==
    [id \in VisibleIds(d) |->
        LET r == get_message_ref_by_id(d, id)[1]
        IN  [name        |-> get_message_name(d, id, MessageRef_message_name(r)),
             comment     |-> get_message_comment(d, id),
             id          |-> get_message_id(d, id),
             size        |-> get_message_size(d, id, MessageRef_message_size(r)),
             transmitter |-> get_message_transmitter(d, id)]]

\* the overlay right after the first i apply_new calls of the run (the
\* overlay of a session starts without overrides over its base)
AfterNews(i) == IF i = 0 THEN from_dbc_data(data.base) ELSE mon.states[i]

\* C31: for operations built by reading the overlay first, after k
\* successful apply_new calls followed by j <= k undos, the identifiers
\* get_all_messages returns and the values the name, comment, identifier,
\* size and transmitter getters return per identifier equal those observed
\* right after the first k-j apply_new calls.
C31_UndoRestoresShown ==
    \A j \in 1..Len(mon.undos) :
       (/\ Len(mon.news) = mon.n
        /\ \A i \in 1..mon.n : mon.news[i] = Ok
        /\ \A i \in 1..j : mon.undos[i] = Ok)
          => Shown(mon.undone[j]) = Shown(AfterNews(mon.n - j))

(***************************************************************************)
(* Further properties of the free-running session (Spec).                  *)
(***************************************************************************)

\* C32: every operation that redo applies forward was applied forward
\* successfully before and has since been applied backward successfully by
\* undo; redo never applies an operation whose last application attempt
\* (forward in apply_new, or backward in undo) failed.  Stated for the
\* attempt of the call right before the redo, which is the last attempt on
\* the entry the redo takes.
C32_RedoOnlyAfterSuccess ==
    [][(/\ calls' = calls + 1
        /\ last'.cmd = "redo"
        /\ last'.applied # << >>
        /\ last.cmd \in {"apply_new", "undo"}
        /\ last.applied # << >>
        /\ SameOp(last.applied[1].op, last'.applied[1].op))
          => /\ last.res = Ok
             /\ last.cmd = "undo"]_vars

\* C33: with a cap of 0 (History::default() included) every successful
\* apply_new applies the operation forward to the target and retains nothing:
\* afterwards the length is 0, the cursor is 0, and can_undo() and can_redo()
\* are both false.
C33_CapZeroRetainsNothing ==
    (/\ history.max_len = 0
     /\ last.cmd = "apply_new"
     /\ last.res = Ok)
       => /\ last.applied = Applied(last.op[1], TRUE, Ok)
          /\ History_len(history) = 0
          /\ history.cursor = 0
          /\ ~can_undo(history)
          /\ ~can_redo(history)

\* a successful apply_new on a default History that held a failed operation
C33_Witness ==
    /\ history = History_default
    /\ last.cmd = "apply_new"
    /\ last.res = Ok
    /\ calls > 1

(***************************************************************************)
(* Further properties of the overlay under direct calls and history        *)
(* commands (SpecOverlay).                                                 *)
(***************************************************************************)

\* what the getter matching a field-edit operation returns for its message
FieldShown(d, op) ==
    LET id == IF op.kind = "ModifyMessageId" THEN op.original_message_id ELSE op.message_id
        r  == get_message_ref_by_id(d, id)[1]
    IN  CASE op.kind = "RenameMessage" -> get_message_name(d, id, MessageRef_message_name(r))
          [] op.kind = "ModifyMessageComment" -> get_message_comment(d, id)
          [] op.kind = "ModifyMessageId" -> get_message_id(d, id)
          [] op.kind = "ModifyMessageSize" -> get_message_size(d, id, MessageRef_message_size(r))
          [] op.kind = "ModifyMessageTransmitter" -> get_message_transmitter(d, id)

FieldNew(op) == IF op.kind = "ModifyMessageId" THEN op.new_id ELSE op.new

FieldEdits == {"RenameMessage", "ModifyMessageComment", "ModifyMessageId",
               "ModifyMessageSize", "ModifyMessageTransmitter"}

\* C34: read-after-write through the history: after a successful apply_new
\* of a field-edit operation with new value v on a message, the matching
\* getter returns v for that message, also when v is the empty string and the
\* base document carries a non-empty comment for it.
C34_ReadAfterWrite ==
    (/\ last.cmd = "apply_new"
     /\ last.res = Ok
     /\ last.op[1].kind \in FieldEdits)
       => FieldShown(data, last.op[1]) = FieldNew(last.op[1])

(***************************************************************************)
(* Further properties of an edit recorded, undone and redone               *)
(* (SpecUndoRedo).                                                         *)
(***************************************************************************)

\* the signal_overrides entry of a ModifySignal's key, as an Option
SignalEntry(d, op) ==
    LET key == << op.message_id, op.signal_name >>
    IN  IF key \in DOMAIN d.signal_overrides THEN Some(d.signal_overrides[key]) ELSE None

\* C35: after apply_new(ModifySignal{message_id, signal_name, old, new}), old
\* being the override stored for the key or None when there is none, the
\* entry of signal_overrides for the key equals new; after a following undo
\* it equals old, or is absent when old is None; after a following redo it
\* equals new again.
C35_SignalOverrideRoundTrip ==
    (/\ mon.op # None
     /\ mon.op[1].kind = "ModifySignal")
       => /\ (pc = "ur_new" /\ last.res = Ok)
                => SignalEntry(data, mon.op[1]) = Some(mon.op[1].new)
          /\ (pc = "ur_undone" /\ mon.undo_res = Ok)
                => SignalEntry(data, mon.op[1]) = mon.op[1].old
          /\ (pc = "ur_redone" /\ mon.undo_res = Ok /\ last.res = Ok)
                => SignalEntry(data, mon.op[1]) = Some(mon.op[1].new)

\* the first edit of a signal was recorded, undone (the entry is gone) and
\* redone
C35_Witness ==
    /\ pc = "ur_redone"
    /\ mon.op # None
    /\ mon.op[1].kind = "ModifySignal"
    /\ mon.op[1].old = None
    /\ mon.undo_res = Ok
    /\ last.res = Ok
    /\ SignalEntry(mon.after_undo, mon.op[1]) = None

(***************************************************************************)
(* Properties of the message dialogs (SpecDialogs).                        *)
(***************************************************************************)

\* C36: creating a message through the create dialog with an identifier
\* equal to that of a currently visible message (a message get_all_messages
\* returns) is rejected with an error dialog: no operation is applied, and
\* the overlay and the History (sequence and cursor) are unchanged.
C36_DuplicateIdRejected ==
    (/\ last.cmd = "create"
     /\ parse_id(mon.form.id_buffer) # None
     /\ parse_id(mon.form.id_buffer)[1] \in VisibleIds(mon.prev_data))
       => /\ mon.error_dialog.show
          /\ (parse_size(mon.form.size_buffer) # None /\ trim(mon.form.name_buffer) # "")
                => mon.error_dialog.message
                      = IdExistsMessage(parse_id(mon.form.id_buffer)[1])
          /\ last.op = None
          /\ last.applied = << >>
          /\ data = mon.prev_data
          /\ history = mon.prev_history

\* the identifier of a message created before is entered again, with a valid
\* size and name
C36_Witness ==
    /\ last.cmd = "create"
    /\ parse_id(mon.form.id_buffer) # None
    /\ parse_id(mon.form.id_buffer)[1] \in DOMAIN mon.prev_data.added_messages
    /\ parse_size(mon.form.size_buffer) # None
    /\ trim(mon.form.name_buffer) # ""
    /\ mon.error_dialog = ShowError(IdExistsMessage(parse_id(mon.form.id_buffer)[1]))
    /\ history.cursor > 0

\* the number of fields of the edit form that changed
ChangedCount(dlg) ==
    (IF name_changed(dlg) THEN 1 ELSE 0) + (IF comment_changed(dlg) THEN 1 ELSE 0)
    + (IF id_changed(dlg) THEN 1 ELSE 0) + (IF size_changed(dlg) THEN 1 ELSE 0)
    + (IF transmitter_changed(dlg) THEN 1 ELSE 0)

\* the History h is g with the one entry op recorded at g's cursor (the
\* undone tail discarded, the oldest entries dropped beyond the cap)
OneEntryAdded(g, h, op) ==
    /\ h.cursor = Len(h.ops)
    /\ IF g.cursor + 1 <= g.max_len
       THEN SameOps(h.ops, Append(SubSeq(g.ops, 1, g.cursor), op))
       ELSE /\ Len(h.ops) = g.max_len
            /\ SameOps(h.ops, SubSeq(Append(SubSeq(g.ops, 1, g.cursor), op),
                                     g.cursor + 2 - g.max_len, g.cursor + 1))

\* C37: applying the message edit form adds exactly one History entry when
\* k >= 1 fields changed (the single field operation when k = 1, a Composite
\* of the k field operations otherwise); when no field changed it adds no
\* History entry and leaves the overlay unchanged.
C37_EditFormAddsOneEntry ==
    last.cmd = "apply_changes"
       => LET k == ChangedCount(mon.form)
          IN  IF k = 0
              THEN /\ last.op = None
                   /\ last.applied = << >>
                   /\ SameHistory(history, mon.prev_history)
                   /\ data = mon.prev_data
              ELSE /\ last.op # None
                   /\ last.applied = Applied(last.op[1], TRUE, Ok)
                   /\ OneEntryAdded(mon.prev_history, history, last.op[1])
                   /\ IF k = 1
                      THEN last.op[1].kind \in FieldEdits
                      ELSE /\ last.op[1].kind = "Composite"
                           /\ Len(last.op[1].ops) = k
                           /\ \A i \in 1..k : last.op[1].ops[i].kind \in FieldEdits
                           /\ \A i, j \in 1..k :
                                 i # j => last.op[1].ops[i].kind # last.op[1].ops[j].kind

\* three fields were changed at once and recorded as one retained Composite,
\* after an earlier entry
C37_Witness ==
    /\ last.cmd = "apply_changes"
    /\ ChangedCount(mon.form) = 3
    /\ last.op # None
    /\ last.op[1].kind = "Composite"
    /\ mon.prev_history.cursor = 1
    /\ history.cursor = 2

(***************************************************************************)
(* Properties of the snapshot-stack undo design (SpecSnapshots).           *)
(***************************************************************************)

\* C38: in the snapshot-stack undo design, after any sequence of push_undo,
\* undo and redo calls the undo stack holds at most MAX_UNDO_ENTRIES = 100
\* entries, and the entries a push_undo drops are the oldest ones: what it
\* leaves is the newest part of the old stack followed by the new entry.
C38_UndoStackBounded ==
    [][/\ Len(mon'.undo_stack) <= 100
       /\ last'.cmd = "push_undo"
             => LET old  == mon.undo_stack
                    new  == mon'.undo_stack
                    drop == Len(old) + 1 - Len(new)
                IN  /\ Len(new) = IF Len(old) < 100 THEN Len(old) + 1 ELSE 100
                    /\ \A i \in 1..(Len(new) - 1) : new[i] = old[i + drop]
                    /\ new[Len(new)].after = from_editable(data')
                    /\ new[Len(new)].before = from_editable(data)]_vars

\* the stack was full, an entry was pushed and the oldest dropped, then one
\* was undone and redone
C38_Witness ==
    /\ mon.pushed > MAX_UNDO_ENTRIES
    /\ last.cmd = "window_redo"
    /\ Len(mon.undo_stack) = MAX_UNDO_ENTRIES
    /\ mon.redo_stack = << >>
    /\ mon.undo_stack[1].op.new_name = "N2"

(***************************************************************************)
(* Properties of the EditableDbc setters (SpecEditable).                   *)
(***************************************************************************)

\* the old and the new value an Operation of EditableDbc carries
OperationOld(op) ==
    IF op.kind = "SetMessageId" THEN op.old_id
    ELSE IF op.kind = "SetSignalName" THEN op.signal_old_name
    ELSE op.old
OperationNew(op) ==
    IF op.kind = "SetMessageId" THEN op.new_id
    ELSE IF op.kind = "SetSignalName" THEN op.signal_new_name
    ELSE op.new

\* C39: for every EditableDbc setter (set_message_* and set_signal_*): when
\* the addressed message or signal does not exist the call leaves messages
\* and history unchanged; when it exists the call changes only that field
\* and appends exactly one Operation carrying the field's previous value as
\* old and the argument as new.
C39_SettersFrameAndRecord ==
    mon.call.kind # ""
       => LET p  == mon.prev
              c  == mon.call
              mi == find_message_index(p, c.message_id)
              si == find_signal_index(p, c.message_id, c.signal_name)
          IN  IF mi = None \/ (c.on_signal /\ si = None)
              THEN /\ data.messages = p.messages
                   /\ Len(data.history) = Len(p.history)
                   /\ \A i \in 1..Len(p.history) : data.history[i] = p.history[i]
              ELSE /\ Len(data.history) = Len(p.history) + 1
                   /\ \A i \in 1..Len(p.history) : data.history[i] = p.history[i]
                   /\ LET op == data.history[Len(data.history)]
                      IN  /\ op.kind = c.kind
                          /\ OperationNew(op) = c.new
                          /\ OperationOld(op) =
                                IF c.on_signal
                                THEN p.messages[mi[1]].signals[si[1]][c.field]
                                ELSE p.messages[mi[1]][c.field]
                   /\ data.messages =
                         IF c.on_signal
                         THEN [p.messages EXCEPT ![mi[1]].signals[si[1]][c.field] = c.new]
                         ELSE [p.messages EXCEPT ![mi[1]][c.field] = c.new]

\* a field of a message that was edited before is set again: the Operation
\* carries the value the earlier call stored
C39_Witness ==
    /\ mon.call.kind = "SetMessageName"
    /\ Len(data.history) = 2
    /\ data.history[1].kind = "SetMessageName"
    /\ data.history[2].kind = "SetMessageName"
    /\ data.history[2].old = "Fast"
    /\ data.history[1].old = "Speed"

====
